---- MODULE Spec2Model ----
(***************************************************************************)
(* PIM image/catalog management scripts: category creation, breadcrumb     *)
(* resolution, catalog flattening, product-catalog links and the product   *)
(* creation loop, modelled from the Python sources.                        *)
(*                                                                         *)
(* Text is modelled as a sequence of one-character strings.  The Cyrillic  *)
(* letters the code names are written with Latin stand-ins: "y" is the     *)
(* letter the code strips as U+044B, "i" the one it strips as U+0438.      *)
(***************************************************************************)
EXTENDS Integers, Sequences, FiniteSets, TLC

VARIABLES
  script,              \* which script runs: "create_new" or "create"
  remote,              \* the catalog service's tree: nodes in creation order
  categories_map,      \* name -> category (create_new_products_in_pim.py)
  categories_by_path,  \* full path -> category
  root_category,       \* the category with id CATALOG_1C_ID
  calls,               \* log of the ensure_category_path calls made so far
  query,               \* the breadcrumb last resolved
  found,               \* what find_category_by_breadcrumbs answered
  product_data,        \* the product whose links are extracted
  all_links,           \* the link rows extracted
  table,               \* product_catalogs rows in the store
  loads,               \* the table as it was after each load
  catalog_tree,        \* the nested tree handed to flatten_catalog_tree
  flattened,           \* the flat list each flatten call returned
  products,            \* the rows of new_onec_products still to process
  counters,            \* success / failed / skipped of the creation loop
  checked_articuls,    \* code_1c -> PIM id cache of the creation loop
  printed,             \* what the creation loop printed
  fallbacks,           \* products given the root category by fallback
  catalogs,            \* the flat catalogs of the snapshot being analysed
  issues,              \* the findings find_inconsistencies collected
  tasks,               \* the fetch_one task of each product id
  semaphore,           \* free slots of the asyncio.Semaphore
  all_products,        \* the product infos fetch_product_catalogs collected
  payload,             \* the catalog payload as the service sent it
  hierarchy_map,       \* what build_hierarchical_map returned
  statistics,          \* what calculate_statistics returned
  pc                   \* position of the running script

creatorVars == <<script, remote, categories_map, categories_by_path, root_category, calls>>
resolveVars == <<query, found>>
linkVars == <<product_data, all_links, table, loads>>
flattenVars == <<catalog_tree, flattened>>
mainVars == <<products, counters, checked_articuls, printed, fallbacks>>

analysisVars == <<catalogs, issues>>
fetchVars == <<tasks, semaphore, all_products>>
payloadVars == <<payload>>
exportVars == <<hierarchy_map, statistics>>
restVars == <<analysisVars, fetchVars, payloadVars, exportVars>>

vars == <<creatorVars, resolveVars, linkVars, flattenVars, mainVars, restVars, pc>>

\* Variables a script does not use keep these values.
ResolveIdle == query = <<>> /\ found = <<>>
LinkIdle == product_data = <<>> /\ all_links = <<>> /\ table = <<>> /\ loads = <<>>
FlattenIdle == catalog_tree = <<>> /\ flattened = <<>>
MainIdle ==
  /\ products = <<>> /\ counters = <<>> /\ checked_articuls = <<>>
  /\ printed = <<>> /\ fallbacks = 0
AnalysisIdle == catalogs = <<>> /\ issues = <<>>
FetchIdle == tasks = <<>> /\ semaphore = 0 /\ all_products = <<>>
PayloadIdle == payload = <<>>
ExportIdle == hierarchy_map = <<>> /\ statistics = <<>>
RestIdle == AnalysisIdle /\ FetchIdle /\ PayloadIdle /\ ExportIdle
CreatorIdle ==
  /\ script = "none" /\ remote = <<>> /\ categories_map = <<>>
  /\ categories_by_path = <<>> /\ root_category = <<>> /\ calls = <<>>

(***************************** bounds **************************************)
MaxCalls == 2

(***************************** text ****************************************)
CATALOG_1C_ID == 22

\* Python None where a string or a category is expected.
None == <<"<None>">>
NoneCat == [id |-> 0, header |-> None, parentId |-> 0, full_path |-> None]

IsSpace(c) == c = " "

\* str.lower() on one character of the model's alphabet.
LowerChar(c) ==
  CASE c = "A" -> "a"
    [] c = "B" -> "b"
    [] c = "G" -> "g"
    [] c = "R" -> "r"
    [] c = "Y" -> "y"
    [] c = "I" -> "i"
    [] c = "U" -> "u"
    [] OTHER -> c

lower(s) == [k \in 1..Len(s) |-> LowerChar(s[k])]

RECURSIVE lstrip(_)
lstrip(s) == IF s # <<>> /\ IsSpace(Head(s)) THEN lstrip(Tail(s)) ELSE s

RECURSIVE rstrip(_)
rstrip(s) ==
  IF s # <<>> /\ IsSpace(s[Len(s)]) THEN rstrip(SubSeq(s, 1, Len(s) - 1)) ELSE s

\* str.strip()
strip(s) == rstrip(lstrip(s))

\* str.split(): the maximal runs of non-space characters.
RECURSIVE split_ws(_, _, _)
split_ws(s, cur, acc) ==
  IF s = <<>> THEN (IF cur = <<>> THEN acc ELSE Append(acc, cur))
  ELSE IF IsSpace(Head(s))
       THEN split_ws(Tail(s), <<>>, IF cur = <<>> THEN acc ELSE Append(acc, cur))
       ELSE split_ws(Tail(s), Append(cur, Head(s)), acc)

\* str.split("/"): empty pieces are kept.
RECURSIVE split_slash(_, _, _)
split_slash(s, cur, acc) ==
  IF s = <<>> THEN Append(acc, cur)
  ELSE IF Head(s) = "/"
       THEN split_slash(Tail(s), <<>>, Append(acc, cur))
       ELSE split_slash(Tail(s), Append(cur, Head(s)), acc)

\* sep.join(parts)
RECURSIVE join(_, _)
join(sep, parts) ==
  IF parts = <<>> THEN <<>>
  ELSE IF Len(parts) = 1 THEN parts[1]
  ELSE parts[1] \o sep \o join(sep, Tail(parts))

PathSep == <<" ", "/", " ">>

\* create_new_products_in_pim.py: strip, lowercase, collapse whitespace runs.
normalize_category_name(name) ==
  join(<<" ">>, split_ws(lower(strip(name)), <<>>, <<>>))

\* create/create_products_in_pim.py: no lowercasing; None and "" give "".
normalize_name(name) ==
  IF name = None \/ name = <<>> THEN <<>>
  ELSE join(<<" ">>, split_ws(strip(name), <<>>, <<>>))

(***************************** dicts ***************************************)
\* A Python dict: entries [k, v] in insertion order; assigning an existing
\* key replaces the value and keeps the key's position.
DictHas(d, key) == \E n \in 1..Len(d) : d[n].k = key

DictGet(d, key) == d[CHOOSE n \in 1..Len(d) : d[n].k = key].v

DictGetOrNone(d, key) == IF DictHas(d, key) THEN DictGet(d, key) ELSE NoneCat

DictSet(d, key, val) ==
  IF DictHas(d, key)
  THEN [n \in 1..Len(d) |-> IF d[n].k = key THEN [k |-> key, v |-> val] ELSE d[n]]
  ELSE Append(d, [k |-> key, v |-> val])

RECURSIVE DictUpdate(_, _)
DictUpdate(d, e) ==
  IF e = <<>> THEN d ELSE DictUpdate(DictSet(d, Head(e).k, Head(e).v), Tail(e))

(***************************** catalog service *****************************)
\* Children of a node, in the order the service lists them.
RECURSIVE ChildrenOf(_, _)
ChildrenOf(nodes, pid) ==
  IF nodes = <<>> THEN <<>>
  ELSE IF Head(nodes).parentId = pid /\ Head(nodes).id # pid
       THEN <<Head(nodes)>> \o ChildrenOf(Tail(nodes), pid)
       ELSE ChildrenOf(Tail(nodes), pid)

RootNode(nodes) == nodes[1]

RECURSIVE MaxId(_)
MaxId(nodes) ==
  IF nodes = <<>> THEN 0
  ELSE LET m == MaxId(Tail(nodes)) IN IF Head(nodes).id > m THEN Head(nodes).id ELSE m

\* POST /catalog/rapid accepted: the service assigns the id.
ServiceCreate(nodes, header, parent_id) ==
  Append(nodes, [id |-> MaxId(nodes) + 1, parentId |-> parent_id, header |-> header])

\* Two children of one parent with the same header.
HasDuplicateSiblings(nodes) ==
  \E a, b \in 1..Len(nodes) :
    a < b /\ nodes[a].parentId = nodes[b].parentId /\ nodes[a].header = nodes[b].header

(***************************** load_categories *****************************)
\* One category object as the loaders keep it.
CategoryInfo(node, full_path) ==
  [id |-> node.id, header |-> node.header, parentId |-> node.parentId,
   full_path |-> full_path]

\* create_new_products_in_pim.py, parse_catalog: pre-order walk that fills
\* categories_map (by name), categories_by_path (by full path) and the root.
RECURSIVE parse_catalog(_, _, _, _)
RECURSIVE parse_catalog_children(_, _, _, _)
parse_catalog(nodes, catalog, parent_path, acc) ==
  LET current_name == normalize_category_name(catalog.header)
      full_path == IF parent_path # <<>> THEN parent_path \o PathSep \o current_name
                   ELSE current_name
      info == CategoryInfo(catalog, full_path)
      acc1 == [map |-> DictSet(acc.map, current_name, info),
               paths |-> DictSet(acc.paths, full_path, info),
               root |-> IF catalog.id = CATALOG_1C_ID THEN info ELSE acc.root]
  IN parse_catalog_children(nodes, ChildrenOf(nodes, catalog.id), full_path, acc1)

parse_catalog_children(nodes, children, full_path, acc) ==
  IF children = <<>> THEN acc
  ELSE parse_catalog_children(nodes, Tail(children), full_path,
                              parse_catalog(nodes, Head(children), full_path, acc))

\* The root the loader makes up when the tree holds no node with id 22.
DefaultRoot ==
  [id |-> CATALOG_1C_ID, header |-> <<"R">>, parentId |-> 1, full_path |-> <<"r">>]

\* create_new_products_in_pim.py, load_categories on the fetched tree.
load_categories_new(nodes) ==
  LET acc == parse_catalog(nodes, RootNode(nodes), <<>>,
                           [map |-> <<>>, paths |-> <<>>, root |-> NoneCat])
  IN [map |-> acc.map, paths |-> acc.paths,
      root |-> IF acc.root = NoneCat THEN DefaultRoot ELSE acc.root]

\* create/create_products_in_pim.py, parse_tree: paths only, normalize_name.
RECURSIVE parse_tree(_, _, _, _)
RECURSIVE parse_tree_children(_, _, _, _)
parse_tree(nodes, cat, parent_path, acc) ==
  LET name == normalize_name(cat.header)
      full_path == IF parent_path # <<>> THEN parent_path \o PathSep \o name ELSE name
      info == CategoryInfo(cat, full_path)
      acc1 == [map |-> acc.map,
               paths |-> DictSet(acc.paths, full_path, info),
               root |-> IF cat.id = CATALOG_1C_ID THEN info ELSE acc.root]
  IN parse_tree_children(nodes, ChildrenOf(nodes, cat.id), full_path, acc1)

parse_tree_children(nodes, children, full_path, acc) ==
  IF children = <<>> THEN acc
  ELSE parse_tree_children(nodes, Tail(children), full_path,
                           parse_tree(nodes, Head(children), full_path, acc))

\* create/create_products_in_pim.py, load_categories with a 200 answer.
load_categories(nodes) ==
  parse_tree(nodes, RootNode(nodes), <<>>,
             [map |-> <<>>, paths |-> <<>>, root |-> NoneCat])

(***************************** create_category *****************************)
\* What the service answers to one creation and to the re-fetch after it.
\* "expired" is the answer to a request whose token is no longer valid: the
\* status is not 200 (raise_for_status raises), like any other rejection.
SvcModes ==
  { [create |-> "ok", fetch |-> "ok"],
    [create |-> "ok", fetch |-> "stale"],
    [create |-> "ok", fetch |-> "fail"],
    [create |-> "reject", fetch |-> "ok"],
    [create |-> "expired", fetch |-> "ok"] }

AcceptAll == [create |-> "ok", fetch |-> "ok"]

\* The body both scripts post: lastLevel is always True.
create_category(header, parent_id) ==
  [header |-> header, parentId |-> parent_id, lastLevel |-> TRUE]

(***************************** ensure_category_path ************************)
\* The walk's state: the service's tree, the caller's dicts (mutated in
\* place), current_parent_id / current_path, the creations posted so far,
\* the position of the loop in the list and the branch each segment took.
WalkStart(nodes, map, paths, parent_id, path) ==
  [remote |-> nodes, map |-> map, paths |-> paths, parent |-> parent_id,
   path |-> path, creates |-> <<>>, result |-> NoneCat, status |-> "walking",
   pos |-> 0, trace |-> <<>>]

\* The branch of the loop body the segment at st.pos took.
Branch(st, branch) == [segment |-> st.pos, branch |-> branch]

Posted(st, header, mode) ==
  Append(st.creates, [header |-> create_category(header, st.parent).header,
                      parentId |-> create_category(header, st.parent).parentId,
                      lastLevel |-> create_category(header, st.parent).lastLevel,
                      accepted |-> (mode.create = "ok"),
                      answer |-> mode.create, fetch |-> mode.fetch,
                      segment |-> st.pos,
                      assigned |-> IF mode.create = "ok" THEN MaxId(st.remote) + 1 ELSE 0])

\* create_new_products_in_pim.py, the body of the loop for one part.
ensure_step_new(st, part, mode) ==
  LET normalized_part == normalize_category_name(part)
      current_path == IF st.path # <<>> THEN st.path \o PathSep \o normalized_part
                      ELSE normalized_part
  IN IF DictHas(st.paths, current_path)
     THEN [st EXCEPT !.parent = DictGet(st.paths, current_path).id,
                     !.path = current_path, !.trace = Append(@, Branch(st, "found"))]
     ELSE IF mode.create = "ok"
     THEN LET created == ServiceCreate(st.remote, part, st.parent)
              posted == Posted(st, part, mode)
          IN IF mode.fetch = "fail"
             THEN \* load_categories raises; the dicts are not yet cleared
                  [st EXCEPT !.remote = created, !.creates = posted,
                             !.path = current_path, !.status = "raised",
                             !.trace = Append(@, Branch(st, "refetch_failed"))]
             ELSE LET loaded == load_categories_new(
                                  IF mode.fetch = "stale" THEN st.remote ELSE created)
                  IN IF DictHas(loaded.paths, current_path)
                     THEN [st EXCEPT !.remote = created, !.creates = posted,
                                     !.map = loaded.map, !.paths = loaded.paths,
                                     !.parent = DictGet(loaded.paths, current_path).id,
                                     !.path = current_path,
                                     !.trace = Append(@, Branch(st, "created"))]
                     ELSE [st EXCEPT !.remote = created, !.creates = posted,
                                     !.map = loaded.map, !.paths = loaded.paths,
                                     !.path = current_path, !.status = "returned",
                                     !.trace = Append(@, Branch(st, "missing"))]
     ELSE [st EXCEPT !.creates = Posted(st, part, mode), !.path = current_path,
                     !.status = "returned", !.trace = Append(@, Branch(st, "create_failed"))]

RECURSIVE ensure_loop_new(_, _, _, _)
ensure_loop_new(st, parts, n, svc) ==
  IF st.status # "walking" THEN st
  ELSE IF n > Len(parts)
  THEN [st EXCEPT !.result = DictGetOrNone(st.paths, st.path), !.status = "returned"]
  ELSE ensure_loop_new(ensure_step_new([st EXCEPT !.pos = n], parts[n], svc[n]),
                       parts, n + 1, svc)

\* create_new_products_in_pim.py, ensure_category_path(breadcrumbs).
ensure_category_path_new(nodes, map, paths, root, breadcrumbs, svc) ==
  IF breadcrumbs = None \/ breadcrumbs = <<>>
  THEN [WalkStart(nodes, map, paths, root.id, <<>>) EXCEPT !.status = "returned"]
  ELSE LET pieces == split_slash(breadcrumbs, <<>>, <<>>)
           parts == [n \in 1..Len(pieces) |-> strip(pieces[n])]
       IN ensure_loop_new(WalkStart(nodes, map, paths, root.id, <<>>), parts, 1, svc)

\* A loop body that keeps the parent id it had before the creation.
ensure_step_keeps_parent(st, group_name, mode) ==
  IF group_name = None \/ group_name = <<>> \/ strip(group_name) = <<>>
  THEN st
  ELSE
  LET next_path == st.path \o PathSep \o normalize_name(group_name)
  IN IF DictHas(st.paths, next_path)
     THEN [st EXCEPT !.parent = DictGet(st.paths, next_path).id, !.path = next_path,
                     !.trace = Append(@, Branch(st, "found"))]
     ELSE IF mode.create = "ok" /\ mode.fetch = "ok"
     THEN [st EXCEPT !.remote = ServiceCreate(st.remote, group_name, st.parent),
                     !.creates = Posted(st, group_name, mode),
                     !.paths = DictUpdate(st.paths,
                                 load_categories(ServiceCreate(st.remote, group_name,
                                                               st.parent)).paths),
                     !.path = next_path, !.trace = Append(@, Branch(st, "created"))]
     ELSE [st EXCEPT !.creates = Posted(st, group_name, mode), !.status = "returned",
                     !.trace = Append(@, Branch(st, "create_failed"))]

\* create/create_products_in_pim.py, the body of the loop for one group.
ensure_step(st, group_name, mode) ==
  IF group_name = None \/ group_name = <<>> \/ strip(group_name) = <<>>
  THEN st
  ELSE
  LET normalized == normalize_name(group_name)
      next_path == st.path \o PathSep \o normalized
  IN IF DictHas(st.paths, next_path)
     THEN [st EXCEPT !.parent = DictGet(st.paths, next_path).id, !.path = next_path,
                     !.trace = Append(@, Branch(st, "found"))]
     ELSE IF mode.create = "ok"
     THEN LET created == ServiceCreate(st.remote, group_name, st.parent)
              posted == Posted(st, group_name, mode)
              \* a re-fetch that fails answers ({}, None)
              new_categories ==
                IF mode.fetch = "fail" THEN <<>>
                ELSE load_categories(
                       IF mode.fetch = "stale" THEN st.remote ELSE created).paths
              updated == DictUpdate(st.paths, new_categories)
          IN IF DictHas(updated, next_path)
             THEN [st EXCEPT !.remote = created, !.creates = posted,
                             !.paths = updated,
                             !.parent = DictGet(updated, next_path).id,
                             !.path = next_path, !.trace = Append(@, Branch(st, "created"))]
             ELSE [st EXCEPT !.remote = created, !.creates = posted,
                             !.paths = updated, !.status = "returned",
                             !.trace = Append(@, Branch(st, IF mode.fetch = "fail"
                                                            THEN "refetch_failed"
                                                            ELSE "missing"))]
     ELSE [st EXCEPT !.creates = Posted(st, group_name, mode), !.status = "returned",
                     !.trace = Append(@, Branch(st, "create_failed"))]

\* A loop that goes on to the next group whatever the last one returned.
RECURSIVE ensure_loop_all(_, _, _, _)
ensure_loop_all(st, groups, n, svc) ==
  IF n > Len(groups)
  THEN [st EXCEPT !.result = DictGetOrNone(st.paths, st.path), !.status = "returned"]
  ELSE ensure_loop_all(ensure_step([st EXCEPT !.pos = n], groups[n], svc[n]),
                       groups, n + 1, svc)

RECURSIVE ensure_loop(_, _, _, _)
ensure_loop(st, groups, n, svc) ==
  IF st.status # "walking" THEN st
  ELSE IF n > Len(groups)
  THEN [st EXCEPT !.result = DictGetOrNone(st.paths, st.path), !.status = "returned"]
  ELSE ensure_loop(ensure_step([st EXCEPT !.pos = n], groups[n], svc[n]),
                   groups, n + 1, svc)

\* any(groups): some group is a non-empty string.
AnyGroup(groups) == \E n \in 1..Len(groups) : groups[n] # None /\ groups[n] # <<>>

\* create/create_products_in_pim.py, ensure_category_path(groups).
ensure_category_path(nodes, paths, root, groups, svc) ==
  IF groups = <<>> \/ ~AnyGroup(groups)
  THEN [WalkStart(nodes, <<>>, paths, root.id, <<>>) EXCEPT !.status = "returned"]
  ELSE ensure_loop(WalkStart(nodes, <<>>, paths, root.id, normalize_name(root.header)),
                   groups, 1, svc)

(***************************** direct calls ********************************)
MaxSegs == 2

sR == <<"R">>
sGr == <<"G", "r">>
sA == <<"a">>
sB == <<"b">>

Node(id, parent_id, header) == [id |-> id, parentId |-> parent_id, header |-> header]

RootOnly == <<Node(CATALOG_1C_ID, 1, sR)>>

\* Trees the service can hold when a run starts (no duplicate siblings).
InitialTrees ==
  { RootOnly,
    <<Node(CATALOG_1C_ID, 1, sR), Node(23, CATALOG_1C_ID, sA)>>,
    <<Node(CATALOG_1C_ID, 1, sR), Node(23, CATALOG_1C_ID, sA), Node(24, 23, sB)>> }

\* group1..group10 of a product row (create/create_products_in_pim.py).
GroupInputs ==
  { <<sGr>>, <<sA, sB>>, <<sA, sGr>>, <<None, sGr>>, <<<<" ">>, sGr>>, <<None, None>> }

\* product_group of a product row (create_new_products_in_pim.py).
BreadcrumbInputs ==
  { sGr, sA \o <<"/">> \o sB, sR \o <<" ", "/", " ">> \o sGr, sA \o <<"/">> \o sGr, None }

SvcPatterns == [1..MaxSegs -> SvcModes]

AllAccepted(svc) == \A n \in DOMAIN svc : svc[n] = AcceptAll

CallRecord(input, svc, before, st) ==
  [input |-> input, accepting |-> AllAccepted(svc),
   result |-> st.result, raised |-> (st.status = "raised"),
   creates |-> st.creates, trace |-> st.trace,
   dupBefore |-> HasDuplicateSiblings(before),
   dupAfter |-> HasDuplicateSiblings(st.remote),
   treeBefore |-> before]

InitEnsure ==
  /\ script \in {"create_new", "create"}
  /\ remote \in InitialTrees
  /\ categories_map = IF script = "create_new" THEN load_categories_new(remote).map ELSE <<>>
  /\ categories_by_path = IF script = "create_new" THEN load_categories_new(remote).paths
                          ELSE load_categories(remote).paths
  /\ root_category = IF script = "create_new" THEN load_categories_new(remote).root
                     ELSE load_categories(remote).root
  /\ calls = <<>>
  /\ ResolveIdle /\ LinkIdle /\ FlattenIdle /\ MainIdle /\ RestIdle
  /\ pc = "ensure"

\* One call of create_new_products_in_pim.py's ensure_category_path.
EnsureNew ==
  /\ pc = "ensure" /\ script = "create_new" /\ Len(calls) < MaxCalls
  /\ \E breadcrumbs \in BreadcrumbInputs, svc \in SvcPatterns :
       LET st == ensure_category_path_new(remote, categories_map, categories_by_path,
                                          root_category, breadcrumbs, svc)
       IN /\ remote' = st.remote
          /\ categories_map' = st.map
          /\ categories_by_path' = st.paths
          /\ calls' = Append(calls, CallRecord(breadcrumbs, svc, remote, st))
  /\ UNCHANGED <<restVars, script, root_category, pc, resolveVars, linkVars, flattenVars, mainVars>>

\* One call of create/create_products_in_pim.py's ensure_category_path.
EnsureCreate ==
  /\ pc = "ensure" /\ script = "create" /\ Len(calls) < MaxCalls
  /\ \E groups \in GroupInputs, svc \in SvcPatterns :
       LET st == ensure_category_path(remote, categories_by_path, root_category,
                                      groups, svc)
       IN /\ remote' = st.remote
          /\ categories_by_path' = st.paths
          /\ calls' = Append(calls, CallRecord(groups, svc, remote, st))
  /\ UNCHANGED <<restVars, script, categories_map, root_category, pc, resolveVars, linkVars, flattenVars,
               mainVars>>

NextEnsure == EnsureNew \/ EnsureCreate

SpecEnsure == InitEnsure /\ [][NextEnsure]_vars

\* Two calls in sequence with the same input, the service accepting every
\* creation, starting from a tree without duplicate siblings.
TwiceSame(k) ==
  /\ k + 1 <= Len(calls)
  /\ calls[k].input = calls[k + 1].input
  /\ calls[k].accepting /\ calls[k + 1].accepting
  /\ ~calls[k].dupBefore

\* C1: ensure_category_path is idempotent: two calls in sequence with the same
\* segments (every creation accepted) return the same node, leave no two
\* children of one parent with the same header, and the second call posts no
\* creation.
C1_Idempotent ==
  \A k \in 1..Len(calls) :
    TwiceSame(k) =>
      /\ calls[k].result = calls[k + 1].result
      /\ ~calls[k + 1].dupAfter
      /\ calls[k + 1].creates = <<>>

\* The same statement for create/create_products_in_pim.py alone.
C1_IdempotentCreateScript == script = "create" => C1_Idempotent

\* The first call is the scenario's: root 22 without a child of that header,
\* one segment, the creation accepted.
GruntyScenario ==
  /\ Len(calls) >= 1
  /\ calls[1].treeBefore = RootOnly
  /\ calls[1].input = (IF script = "create_new" THEN sGr ELSE <<sGr>>)
  /\ calls[1].accepting

GruntyPath ==
  IF script = "create_new"
  THEN normalize_category_name(sR) \o PathSep \o normalize_category_name(sGr)
  ELSE normalize_name(sR) \o PathSep \o normalize_name(sGr)

\* C2: from a tree with root 22 and no child of that header, ensuring the one
\* segment posts exactly one creation and returns the created node, whose
\* normalized path "<root> / <segment>" is in the refreshed path index.
C2_CreatesOnce ==
  (GruntyScenario /\ Len(calls) = 1) =>
      /\ Len(calls[1].creates) = 1
      /\ calls[1].result # NoneCat
      /\ calls[1].result.header = sGr
      /\ calls[1].result.parentId = CATALOG_1C_ID
      /\ DictHas(categories_by_path, GruntyPath)
      /\ DictGet(categories_by_path, GruntyPath) = calls[1].result

C2_CreatesOnceCreateScript == script = "create" => C2_CreatesOnce

\* The creations the service accepted, by call and position in the call.
AcceptedCreates ==
  {p \in (1..MaxCalls) \X (1..MaxSegs) :
     /\ p[1] <= Len(calls) /\ p[2] <= Len(calls[p[1]].creates)
     /\ calls[p[1]].creates[p[2]].accepted}

SameCreate(p, q) ==
  /\ calls[p[1]].creates[p[2]].parentId = calls[q[1]].creates[q[2]].parentId
  /\ calls[p[1]].creates[p[2]].header = calls[q[1]].creates[q[2]].header

\* C29: with the calls made one after the other, whatever the segment lists
\* and whatever the service answers (creation rejected, re-fetch failing or
\* stale), the service never accepts two creations with the same parentId
\* and the same header.
C29_NoRepeatedCreate ==
  \A p, q \in AcceptedCreates : SameCreate(p, q) => p = q

\* The same statement for create/create_products_in_pim.py alone.
C29_NoRepeatedCreateCreateScript == script = "create" => C29_NoRepeatedCreate

\* The same for create/create_products_in_pim.py when every re-fetch after
\* an accepted creation answers with the new tree.
C29_FreshRefetchCreateScript ==
  (script = "create"
   /\ \A k \in 1..Len(calls) : \A n \in 1..Len(calls[k].creates) :
        calls[k].creates[n].accepted => calls[k].creates[n].fetch = "ok")
    => C29_NoRepeatedCreate

(***************************** one walk ************************************)
\* Breadcrumbs that name the root first, as the stored paths do.
sRGrB == sR \o <<" ", "/", " ">> \o sGr \o <<" ", "/", " ">> \o sB
sRAGr == sR \o <<"/">> \o sA \o <<"/">> \o sGr

WalkBreadcrumbInputs == BreadcrumbInputs \cup {sRGrB, sRAGr}

WalkGroupInputs == GroupInputs \cup {<<sA, None, sGr>>, <<sGr, sB, sA>>}

\* One answer of the service per segment of the longest input.
WalkPatterns == [1..MaxSegs + 1 -> SvcModes]

InitWalk ==
  /\ script \in {"create_new", "create"}
  /\ remote \in InitialTrees
  /\ categories_map = IF script = "create_new" THEN load_categories_new(remote).map ELSE <<>>
  /\ categories_by_path = IF script = "create_new" THEN load_categories_new(remote).paths
                          ELSE load_categories(remote).paths
  /\ root_category = IF script = "create_new" THEN load_categories_new(remote).root
                     ELSE load_categories(remote).root
  /\ calls = <<>>
  /\ ResolveIdle /\ LinkIdle /\ FlattenIdle /\ MainIdle /\ RestIdle
  /\ pc = "walk"

\* The one walk of create_new_products_in_pim.py's ensure_category_path.
WalkNew ==
  /\ pc = "walk" /\ script = "create_new"
  /\ \E breadcrumbs \in WalkBreadcrumbInputs, svc \in WalkPatterns :
       LET st == ensure_category_path_new(remote, categories_map, categories_by_path,
                                          root_category, breadcrumbs, svc)
       IN /\ remote' = st.remote
          /\ categories_map' = st.map
          /\ categories_by_path' = st.paths
          /\ calls' = Append(calls, CallRecord(breadcrumbs, svc, remote, st))
  /\ pc' = "walked"
  /\ UNCHANGED <<restVars, script, root_category, resolveVars, linkVars, flattenVars, mainVars>>

\* The one walk of create/create_products_in_pim.py's ensure_category_path.
WalkCreate ==
  /\ pc = "walk" /\ script = "create"
  /\ \E groups \in WalkGroupInputs, svc \in WalkPatterns :
       LET st == ensure_category_path(remote, categories_by_path, root_category,
                                      groups, svc)
       IN /\ remote' = st.remote
          /\ categories_by_path' = st.paths
          /\ calls' = Append(calls, CallRecord(groups, svc, remote, st))
  /\ pc' = "walked"
  /\ UNCHANGED <<restVars, script, categories_map, root_category, resolveVars, linkVars,
                 flattenVars, mainVars>>

NextWalk == WalkNew \/ WalkCreate

SpecWalk == InitWalk /\ [][NextWalk]_vars

\* The segments of a call's input, in the order the loop takes them.
WalkParts(input) ==
  IF script = "create" THEN input
  ELSE IF input = None \/ input = <<>> THEN <<>>
  ELSE LET pieces == split_slash(input, <<>>, <<>>)
       IN [n \in 1..Len(pieces) |-> strip(pieces[n])]

\* Positions of the segments that are not empty.
Segments(input) ==
  {n \in 1..Len(WalkParts(input)) :
     /\ WalkParts(input)[n] # None
     /\ strip(WalkParts(input)[n]) # <<>>}

LastSegment(input) == CHOOSE n \in Segments(input) : \A m \in Segments(input) : m <= n

\* The creations a call posted for the segment at position seg.
Attempts(call, seg) == {i \in 1..Len(call.creates) : call.creates[i].segment = seg}

\* C11: a creation answered "session expired" is followed by exactly one
\* retry of the same creation (same header, same parent), and no segment
\* gets more than two creation attempts.
C11_RetriesOnce ==
  \A k \in 1..Len(calls) : \A i \in 1..Len(calls[k].creates) :
    LET c == calls[k].creates[i]
        attempts == Attempts(calls[k], c.segment)
    IN /\ Cardinality(attempts) <= 2
       /\ (c.answer = "expired" /\ \A j \in attempts : i <= j) =>
            /\ attempts = {i, i + 1}
            /\ calls[k].creates[i + 1].header = c.header
            /\ calls[k].creates[i + 1].parentId = c.parentId

Resolved == {"found", "created"}

\* C12: in one walk nothing is posted for a segment after the first one that
\* failed (creation refused, or the re-fetched tree lacks the path), the
\* result is then None, and a node is returned only when every non-empty
\* segment resolved.
C12_WalkStops ==
  \A k \in 1..Len(calls) :
    LET c == calls[k] IN
    /\ \A n \in 1..Len(c.trace) :
         c.trace[n].branch \notin Resolved =>
           /\ c.result = NoneCat
           /\ \A i \in 1..Len(c.creates) : c.creates[i].segment <= c.trace[n].segment
           /\ \A m \in 1..Len(c.trace) : c.trace[m].segment <= c.trace[n].segment
    /\ c.result # NoneCat =>
         \A seg \in Segments(c.input) :
           \E n \in 1..Len(c.trace) :
             c.trace[n].segment = seg /\ c.trace[n].branch \in Resolved

\* A walk over two segments whose first creation failed.
C12_Witness ==
  /\ pc = "walked"
  /\ Cardinality(Segments(calls[1].input)) >= 2
  /\ Len(calls[1].trace) = 1
  /\ calls[1].trace[1].branch \in {"create_failed", "missing"}
  /\ Len(calls[1].creates) = 1

\* Creation j is for the segment taken right after the one of creation i.
NextAfter(c, i, j) ==
  /\ i < j
  /\ \A n \in 1..Len(c.trace) :
       ~(c.creates[i].segment < c.trace[n].segment
         /\ c.trace[n].segment < c.creates[j].segment)

\* C13: every accepted creation whose re-fetch answered is in the path index
\* with the id the service assigned to it, and a creation for the segment
\* after a created one is posted with that assigned id as parentId.
C13_ParentFromRefetch ==
  \A k \in 1..Len(calls) :
    LET c == calls[k] IN
    /\ \A i, j \in 1..Len(c.creates) :
         NextAfter(c, i, j) => c.creates[j].parentId = c.creates[i].assigned
    /\ k = Len(calls) =>
         \A i \in 1..Len(c.creates) :
           (c.creates[i].accepted /\ c.creates[i].fetch = "ok") =>
             \E e \in 1..Len(categories_by_path) :
               /\ categories_by_path[e].v.id = c.creates[i].assigned
               /\ categories_by_path[e].v.header = c.creates[i].header
               /\ categories_by_path[e].v.parentId = c.creates[i].parentId

\* A walk that created two nodes, the second under the first.
C13_Witness ==
  /\ pc = "walked"
  /\ Len(calls[1].creates) = 2
  /\ calls[1].creates[1].accepted /\ calls[1].creates[2].accepted
  /\ calls[1].creates[2].parentId = calls[1].creates[1].assigned
  /\ calls[1].creates[2].parentId # root_category.id
  /\ calls[1].result.id = calls[1].creates[2].assigned

\* The node of the path prefix that precedes the segment at position seg.
PrefixNodeIds(c, seg) ==
  IF \A m \in Segments(c.input) : seg <= m
  THEN {root_category.id}
  ELSE LET prev == CHOOSE m \in Segments(c.input) :
                     m < seg /\ \A q \in Segments(c.input) : q < seg => q <= m
       IN {remote[n].id : n \in {q \in 1..Len(remote) :
             normalize_name(remote[q].header) = normalize_name(WalkParts(c.input)[prev])}}

\* C14: every creation posted carries the segment as header, the id of the
\* node of the preceding prefix (the root for the first segment) as parentId,
\* and lastLevel true exactly for the last non-empty segment.
C14_CreationBody ==
  \A k \in 1..Len(calls) :
    LET c == calls[k] IN
    \A i \in 1..Len(c.creates) :
      /\ c.creates[i].header = WalkParts(c.input)[c.creates[i].segment]
      /\ c.creates[i].parentId \in PrefixNodeIds(c, c.creates[i].segment)
      /\ c.creates[i].lastLevel = (c.creates[i].segment = LastSegment(c.input))

\* The header and parentId part of C14 alone.
C14_HeaderAndParent ==
  \A k \in 1..Len(calls) :
    LET c == calls[k] IN
    \A i \in 1..Len(c.creates) :
      /\ c.creates[i].header = WalkParts(c.input)[c.creates[i].segment]
      /\ c.creates[i].parentId \in PrefixNodeIds(c, c.creates[i].segment)

(***************************** find_inconsistencies ************************)
MaxNested == 2

\* lastLevel, hasChildren, enabled, productCountPim and syncUid of a catalog.
CatalogProfiles ==
  { [lastLevel |-> TRUE, hasChildren |-> FALSE, enabled |-> TRUE,
     productCountPim |-> 1, syncUid |-> "u1"],
    [lastLevel |-> TRUE, hasChildren |-> TRUE, enabled |-> TRUE,
     productCountPim |-> 0, syncUid |-> ""],
    [lastLevel |-> FALSE, hasChildren |-> TRUE, enabled |-> FALSE,
     productCountPim |-> 1, syncUid |-> "u2"] }

Catalog(id, parent_id, lft, rgt, profile) ==
  [id |-> id, parentId |-> parent_id, lft |-> lft, rgt |-> rgt, lastLevel |-> profile.lastLevel,
   hasChildren |-> profile.hasChildren, enabled |-> profile.enabled,
   productCountPim |-> profile.productCountPim, syncUid |-> profile.syncUid]

\* bool(x) of an integer field.
TruthyInt(x) == x # 0

\* An id no catalog of a snapshot has.
ABSENT_ID == 9

\* data["catalogs"] of a snapshot file: ids are the positions, and the
\* catalogs of one snapshot share the other fields.  parentId is null (0),
\* the id of the other catalog, or an id the snapshot does not hold.
Snapshots ==
  LET Bounds == (0..MaxNested) \X (0..MaxNested)
  IN { <<Catalog(1, p, a[1], a[2], profile)>> :
         p \in {0, ABSENT_ID}, a \in Bounds, profile \in CatalogProfiles }
     \cup { <<Catalog(1, p[1], a[1], a[2], profile), Catalog(2, p[2], b[1], b[2], profile)>> :
               p \in {<<0, 1>>, <<0, ABSENT_ID>>, <<ABSENT_ID, ABSENT_ID>>},
               a \in Bounds, b \in Bounds, profile \in CatalogProfiles }

ORPHANS_SHOWN == 5

\* analyze_catalog_data.py, analyze_catalog_structure: the catalogs whose
\* parentId is set and is the id of no catalog of the snapshot.
orphans(cats) ==
  SelectSeq(cats, LAMBDA c : TruthyInt(c.parentId)
                             /\ c.parentId \notin {cats[n].id : n \in 1..Len(cats)})

Issue(kind, id, uid) == [kind |-> kind, id |-> id, uid |-> uid]

\* 1. nested sets: `if lft and rgt and lft >= rgt`.
RECURSIVE nested_set_issues(_)
nested_set_issues(cats) ==
  IF cats = <<>> THEN <<>>
  ELSE (IF TruthyInt(Head(cats).lft) /\ TruthyInt(Head(cats).rgt)
           /\ Head(cats).lft >= Head(cats).rgt
        THEN <<Issue("nested_set", Head(cats).id, "")>> ELSE <<>>)
       \o nested_set_issues(Tail(cats))

\* 2. intermediate catalogs marked lastLevel.
RECURSIVE last_level_issues(_)
last_level_issues(cats) ==
  IF cats = <<>> THEN <<>>
  ELSE (IF Head(cats).lastLevel /\ Head(cats).hasChildren
        THEN <<Issue("last_level", Head(cats).id, "")>> ELSE <<>>)
       \o last_level_issues(Tail(cats))

\* 3. disabled catalogs that hold products.
RECURSIVE disabled_issues(_)
disabled_issues(cats) ==
  IF cats = <<>> THEN <<>>
  ELSE (IF ~Head(cats).enabled /\ Head(cats).productCountPim > 0
        THEN <<Issue("disabled", Head(cats).id, "")>> ELSE <<>>)
       \o disabled_issues(Tail(cats))

\* 4. syncUid borne by more than one catalog, in order of first appearance.
RECURSIVE sync_uid_issues(_, _)
sync_uid_issues(cats, n) ==
  IF n > Len(cats) THEN <<>>
  ELSE (IF /\ cats[n].syncUid # ""
           /\ \A m \in 1..(n - 1) : cats[m].syncUid # cats[n].syncUid
           /\ \E m \in (n + 1)..Len(cats) : cats[m].syncUid = cats[n].syncUid
        THEN <<Issue("sync_uid", 0, cats[n].syncUid)>> ELSE <<>>)
       \o sync_uid_issues(cats, n + 1)

find_inconsistencies(cats) ==
  nested_set_issues(cats) \o last_level_issues(cats) \o disabled_issues(cats)
    \o sync_uid_issues(cats, 1)

InitAnalysis ==
  /\ catalogs \in Snapshots
  /\ issues = <<>>
  /\ CreatorIdle /\ ResolveIdle /\ LinkIdle /\ FlattenIdle /\ MainIdle /\ FetchIdle
  /\ PayloadIdle /\ ExportIdle
  /\ pc = "structure"

\* analyze_catalog_structure prints the number of orphans and the first
\* ORPHANS_SHOWN of them.
AnalyzeCatalogStructure ==
  /\ pc = "structure"
  /\ printed' = [orphans_total |-> Len(orphans(catalogs)),
                 orphans_shown |->
                   SubSeq(orphans(catalogs), 1,
                          IF Len(orphans(catalogs)) < ORPHANS_SHOWN
                          THEN Len(orphans(catalogs)) ELSE ORPHANS_SHOWN)]
  /\ pc' = "analyse"
  /\ UNCHANGED <<analysisVars, products, counters, checked_articuls, fallbacks,
                 creatorVars, resolveVars, linkVars, flattenVars, fetchVars, payloadVars,
                 exportVars>>

\* find_inconsistencies collects its findings; it prints len(issues) and
\* the first findings of the list.
FindInconsistencies ==
  /\ pc = "analyse"
  /\ issues' = find_inconsistencies(catalogs)
  /\ pc' = "analysed"
  /\ UNCHANGED <<catalogs, creatorVars, resolveVars, linkVars, flattenVars, mainVars,
                 fetchVars, payloadVars, exportVars>>

NextAnalysis == AnalyzeCatalogStructure \/ FindInconsistencies

SpecAnalysis == InitAnalysis /\ [][NextAnalysis]_vars

NestedSetFinding(id) ==
  \E n \in 1..Len(issues) : issues[n].kind = "nested_set" /\ issues[n].id = id

\* C15: after the check, a nested-set finding is reported for exactly the
\* catalogs of the snapshot with lft >= rgt, whatever the values (0 included).
C15_NestedSetFindings ==
  pc = "analysed" =>
    \A n \in 1..Len(catalogs) :
      NestedSetFinding(catalogs[n].id) <=> (catalogs[n].lft >= catalogs[n].rgt)

\* What the code reports: lft >= rgt among the catalogs whose lft and rgt
\* are both non-zero.
C15_NonZeroOnly ==
  pc = "analysed" =>
    \A n \in 1..Len(catalogs) :
      NestedSetFinding(catalogs[n].id) <=>
        (catalogs[n].lft # 0 /\ catalogs[n].rgt # 0 /\ catalogs[n].lft >= catalogs[n].rgt)

IsOrphan(c) == c.parentId \notin {0} \cup {catalogs[n].id : n \in 1..Len(catalogs)}

\* C28: every node whose parentId is the id of no node of the snapshot is
\* reported as an orphan in the findings list of the consistency check, the
\* list whose length is the total shown.
C28_OrphansAmongFindings ==
  pc = "analysed" =>
    \A n \in 1..Len(catalogs) :
      IsOrphan(catalogs[n]) =>
        \E k \in 1..Len(issues) : issues[k].kind = "orphan" /\ issues[k].id = catalogs[n].id

\* Where the code reports orphans: analyze_catalog_structure counts them on
\* their own, and no finding of find_inconsistencies is about one.
C28_OrphansCountedApart ==
  pc = "analysed" =>
    /\ printed.orphans_total = Cardinality({n \in 1..Len(catalogs) : IsOrphan(catalogs[n])})
    /\ \A k \in 1..Len(issues) : issues[k].kind # "orphan"

(***************************** breadcrumb resolution ***********************)
\* Python values that are not strings, as product_group can hold them.
IntZero == <<"<int 0>">>
IntFive == <<"<int 5>">>
EmptyList == <<"<list []>">>
ListOfOne == <<"<list ['a']>">>

IsStr(x) == x \notin {None, IntZero, IntFive, EmptyList, ListOfOne}

\* bool(x)
Truthy(x) == x \notin {None, IntZero, EmptyList, <<>>}

\* sub in s
Contains(sub, s) ==
  \E k \in 0..(Len(s) - Len(sub)) : SubSeq(s, k + 1, k + Len(sub)) = sub

\* s.replace(c, "")
RECURSIVE remove_char(_, _)
remove_char(s, c) ==
  IF s = <<>> THEN <<>>
  ELSE IF Head(s) = c THEN remove_char(Tail(s), c)
  ELSE <<Head(s)>> \o remove_char(Tail(s), c)

\* find_similar_category, search_variants
search_variants(search_term) ==
  << search_term,
     remove_char(search_term, "y"),
     remove_char(search_term, "i"),
     remove_char(search_term, " ") >>

NoResult == [node |-> NoneCat, step |-> 0, via |-> "idle", raised |-> FALSE]
Found(node, step, via) == [node |-> node, step |-> step, via |-> via, raised |-> FALSE]
NotFound(via) == Found(NoneCat, 5, via)

\* The first entry of a dict, in insertion order, whose key satisfies Test.
FirstEntry(d, Test(_)) ==
  LET hits == {n \in 1..Len(d) : Test(d[n].k)}
  IN IF hits = {} THEN 0 ELSE CHOOSE n \in hits : \A m \in hits : n <= m

\* create_new_products_in_pim.py, find_similar_category.
find_similar_category(term, map, paths) ==
  LET search_term == normalize_category_name(term)
      variants == search_variants(search_term)
      vhits == {n \in 1..Len(variants) : DictHas(map, variants[n])}
      NameTest(cat_name) == Contains(search_term, cat_name) \/ Contains(cat_name, search_term)
      PathTest(path) == Contains(search_term, lower(path))
      byName == FirstEntry(map, NameTest)
      byPath == FirstEntry(paths, PathTest)
  IN IF vhits # {}
     THEN Found(DictGet(map, variants[CHOOSE n \in vhits : \A m \in vhits : n <= m]),
                3, "variant")
     ELSE IF byName # 0 THEN Found(map[byName].v, 4, "name")
     ELSE IF byPath # 0 THEN Found(paths[byPath].v, 4, "path")
     ELSE NotFound("none")

\* [normalize_category_name(p) for p in breadcrumbs.split("/")]
breadcrumb_parts(breadcrumbs) ==
  LET pieces == split_slash(breadcrumbs, <<>>, <<>>)
  IN [n \in 1..Len(pieces) |-> normalize_category_name(pieces[n])]

normalized_breadcrumbs(breadcrumbs) == join(PathSep, breadcrumb_parts(breadcrumbs))

\* for part in reversed(parts): the first part, from the last, that Hit accepts.
LastHit(parts, Hit(_)) ==
  LET hits == {n \in 1..Len(parts) : Hit(parts[n])}
  IN IF hits = {} THEN 0 ELSE CHOOSE n \in hits : \A m \in hits : n >= m

\* Variant: the per-part lookup runs before the full-path lookup.
find_category_parts_first(breadcrumbs, map, paths) ==
  IF ~Truthy(breadcrumbs) THEN NotFound("empty")
  ELSE IF ~IsStr(breadcrumbs) THEN [NoResult EXCEPT !.raised = TRUE, !.via = "error"]
  ELSE
  LET normalized == normalized_breadcrumbs(breadcrumbs)
      parts == breadcrumb_parts(breadcrumbs)
      InMap(part) == DictHas(map, part)
      Similar(part) == find_similar_category(part, map, paths).step # 5
      byPart == LastHit(parts, InMap)
      bySimilar == LastHit(parts, Similar)
  IN IF byPart # 0 THEN Found(DictGet(map, parts[byPart]), 2, "part")
     ELSE IF DictHas(paths, normalized) THEN Found(DictGet(paths, normalized), 1, "path")
     ELSE IF bySimilar # 0 THEN find_similar_category(parts[bySimilar], map, paths)
     ELSE NotFound("none")

\* Variant: no early return for an empty breadcrumb.
find_category_no_guard(breadcrumbs, map, paths) ==
  IF ~IsStr(breadcrumbs) THEN [NoResult EXCEPT !.raised = TRUE, !.via = "error"]
  ELSE
  LET normalized == normalized_breadcrumbs(breadcrumbs)
      parts == breadcrumb_parts(breadcrumbs)
      InMap(part) == DictHas(map, part)
      Similar(part) == find_similar_category(part, map, paths).step # 5
      byPart == LastHit(parts, InMap)
      bySimilar == LastHit(parts, Similar)
  IN IF DictHas(paths, normalized) THEN Found(DictGet(paths, normalized), 1, "path")
     ELSE IF byPart # 0 THEN Found(DictGet(map, parts[byPart]), 2, "part")
     ELSE IF bySimilar # 0 THEN find_similar_category(parts[bySimilar], map, paths)
     ELSE NotFound("none")

\* create_new_products_in_pim.py, find_category_by_breadcrumbs without a
\* token: the lookup steps alone. A value without split() raises.
find_category_by_breadcrumbs(breadcrumbs, map, paths) ==
  IF ~Truthy(breadcrumbs) THEN NotFound("empty")
  ELSE IF ~IsStr(breadcrumbs) THEN [NoResult EXCEPT !.raised = TRUE, !.via = "error"]
  ELSE
  LET normalized == normalized_breadcrumbs(breadcrumbs)
      parts == breadcrumb_parts(breadcrumbs)
      InMap(part) == DictHas(map, part)
      Similar(part) == find_similar_category(part, map, paths).step # 5
      byPart == LastHit(parts, InMap)
      bySimilar == LastHit(parts, Similar)
  IN IF DictHas(paths, normalized) THEN Found(DictGet(paths, normalized), 1, "path")
     ELSE IF byPart # 0 THEN Found(DictGet(map, parts[byPart]), 2, "part")
     ELSE IF bySimilar # 0 THEN find_similar_category(parts[bySimilar], map, paths)
     ELSE NotFound("none")

(***************************** resolving breadcrumbs ***********************)
sAslashB == <<"a", "/", "b">>
sAB == <<"a", "b">>

\* Trees /catalog/22 can answer with, as the resolver sees them.
\* "Ugolok" and "Ugolki" stand for the singular and the plural the code's
\* comments name; "Izdelie iz plosk. lista" for the group above them.
sUgolok == <<"U", "g", "o", "l", "o", "k">>
sUgolki == <<"U", "g", "o", "l", "k", "i">>
sIzdelie ==
  <<"I", "z", "d", "e", "l", "i", "e", " ", "i", "z", " ", "p", "l", "o", "s", "k", ".",
    " ", "l", "i", "s", "t", "a">>
sIzdelieUgolki == sIzdelie \o <<" ", "/", " ">> \o sUgolki

UgolokTree == <<Node(CATALOG_1C_ID, 1, sR), Node(23, CATALOG_1C_ID, sUgolok)>>

ResolverTrees ==
  { UgolokTree,
    <<Node(CATALOG_1C_ID, 1, sR), Node(23, CATALOG_1C_ID, sA), Node(24, 23, sB)>>,
    <<Node(CATALOG_1C_ID, 1, sR), Node(23, CATALOG_1C_ID, sA), Node(24, 23, sB),
      Node(25, CATALOG_1C_ID, sGr), Node(26, 25, sB)>>,
    <<Node(CATALOG_1C_ID, 1, sR), Node(23, CATALOG_1C_ID, sAslashB),
      Node(24, CATALOG_1C_ID, sA)>>,
    <<Node(CATALOG_1C_ID, 1, sR), Node(23, CATALOG_1C_ID, sAB),
      Node(24, CATALOG_1C_ID, sGr)>>,
    <<Node(CATALOG_1C_ID, 1, sR), Node(23, CATALOG_1C_ID, <<"A", " ", " ", "b">>),
      Node(24, 23, <<" ", "G", "r">>)>> }

\* Every node's category object with the full path parse_catalog gives it,
\* in visiting order (also the ones a later node replaces in the dicts).
RECURSIVE all_category_infos(_, _, _)
RECURSIVE all_category_infos_children(_, _, _)
all_category_infos(nodes, catalog, parent_path) ==
  LET current_name == normalize_category_name(catalog.header)
      full_path == IF parent_path # <<>> THEN parent_path \o PathSep \o current_name
                   ELSE current_name
  IN <<CategoryInfo(catalog, full_path)>>
     \o all_category_infos_children(nodes, ChildrenOf(nodes, catalog.id), full_path)

all_category_infos_children(nodes, children, full_path) ==
  IF children = <<>> THEN <<>>
  ELSE all_category_infos(nodes, Head(children), full_path)
       \o all_category_infos_children(nodes, Tail(children), full_path)

LoadedNodes == all_category_infos(remote, RootNode(remote), <<>>)

StoredPaths(nodes) ==
  LET infos == all_category_infos(nodes, RootNode(nodes), <<>>)
  IN {infos[n].full_path : n \in 1..Len(infos)}

\* product_group values of the product rows.
BreadcrumbQueries ==
  { <<>>, None, IntZero, IntFive, EmptyList, ListOfOne,
    <<"A", " ", "/", " ", "B">>,
    <<"g", " ", "r", " ", "/", " ", "a">>,
    <<"a", "y">>, <<"b", "i", " ", "/", " ", "z">>,
    <<"z">>, <<"z", " ", "/", " ", "G", "r">>,
    <<"/">>, <<"a", "/">>, <<" ">>,
    <<"R", "/", "a", "/", "b">>, <<"r", " ", "/", " ", "z">>,
    sIzdelieUgolki,
    <<"y", "a">>, <<"b", "z">>, <<"z", "/">>, <<" ", "/", " ">> }

InitResolve ==
  /\ script = "create_new"
  /\ remote \in ResolverTrees
  /\ categories_map = load_categories_new(remote).map
  /\ categories_by_path = load_categories_new(remote).paths
  /\ root_category = load_categories_new(remote).root
  /\ calls = <<>>
  /\ query = <<>> /\ found = NoResult
  /\ LinkIdle /\ FlattenIdle /\ MainIdle /\ RestIdle
  /\ pc = "resolve"

\* One lookup of a product's breadcrumb against the loaded dicts.
Resolve ==
  /\ pc \in {"resolve", "resolved"}
  /\ \E breadcrumbs \in BreadcrumbQueries \cup StoredPaths(remote) :
       /\ query' = breadcrumbs
       /\ found' = find_category_by_breadcrumbs(breadcrumbs, categories_map,
                                                categories_by_path)
  /\ pc' = "resolved"
  /\ UNCHANGED <<restVars, creatorVars, linkVars, flattenVars, mainVars>>

NextResolve == Resolve

SpecResolve == InitResolve /\ [][NextResolve]_vars

\* C3: resolving a loaded node's own stored path returns exactly that node,
\* by the full-path lookup (step 1), for every node of the tree.
C3_RoundTrip ==
  pc = "resolved" =>
    \A n \in 1..Len(LoadedNodes) :
      query = LoadedNodes[n].full_path =>
        found.node = LoadedNodes[n] /\ found.step = 1

\* What each lookup step has to offer for the resolved breadcrumb.
QueryParts == breadcrumb_parts(query)
LastPart == QueryParts[Len(QueryParts)]

PathMatch == DictHas(categories_by_path, normalized_breadcrumbs(query))

PartMatch == \E n \in 1..Len(QueryParts) : DictHas(categories_map, QueryParts[n])

VariantOf(part) ==
  \E n \in 1..Len(search_variants(part)) : DictHas(categories_map, search_variants(part)[n])

ContainedFor(part) ==
  \/ \E n \in 1..Len(categories_map) :
       Contains(part, categories_map[n].k) \/ Contains(categories_map[n].k, part)
  \/ \E n \in 1..Len(categories_by_path) : Contains(part, lower(categories_by_path[n].k))

VariantMatch == VariantOf(LastPart)
ContainMatch == ContainedFor(LastPart)

NonEmptyString == IsStr(query) /\ query # <<>>

MatchesNothing ==
  /\ ~PathMatch /\ ~PartMatch
  /\ \A n \in 1..Len(QueryParts) : ~VariantOf(QueryParts[n]) /\ ~ContainedFor(QueryParts[n])

C18_UgolkiByVariant ==
  (pc = "resolved" /\ remote = UgolokTree /\ query = sIzdelieUgolki) =>
    /\ found.node.header = sUgolok
    /\ found.step = 3

\* What the code answers in that scenario: nothing, at no step.
C18_UgolkiNotFound ==
  (pc = "resolved" /\ remote = UgolokTree /\ query = sIzdelieUgolki) =>
    /\ found.node = NoneCat
    /\ found.step = 5
    /\ search_variants(normalize_category_name(sUgolki))
         = << lower(sUgolki), lower(sUgolki), <<"u", "g", "o", "l", "k">>, lower(sUgolki) >>

\* The nodes of the tree whose normalized name is the part.
Bearers(part) ==
  {n \in 1..Len(LoadedNodes) : normalize_category_name(LoadedNodes[n].header) = part}

UniqueParts == {n \in 1..Len(QueryParts) : Cardinality(Bearers(QueryParts[n])) = 1}

\* C20: when the full path does not match, the part lookup answers with the
\* node of the last part that exactly one node of the tree bears, and a part
\* borne by two or more nodes is not accepted at this step.
C20_UniquePartWins ==
  (pc = "resolved" /\ NonEmptyString /\ ~PathMatch) =>
    IF UniqueParts # {}
    THEN LET n == CHOOSE m \in UniqueParts : \A q \in UniqueParts : q <= m
         IN /\ found.step = 2
            /\ Bearers(QueryParts[n]) = {m \in 1..Len(LoadedNodes) : LoadedNodes[m] = found.node}
    ELSE found.step # 2

\* What the code does at the part lookup: the last part that any node bears
\* wins, and the answer is the node parse_catalog stored last under that name.
C20_AnyBearerWins ==
  (pc = "resolved" /\ NonEmptyString /\ ~PathMatch) =>
    LET borne == {n \in 1..Len(QueryParts) : Bearers(QueryParts[n]) # {}}
    IN IF borne # {}
       THEN LET n == CHOOSE m \in borne : \A q \in borne : q <= m
                last == CHOOSE m \in Bearers(QueryParts[n]) :
                          \A q \in Bearers(QueryParts[n]) : q <= m
            IN found.step = 2 /\ found.node = LoadedNodes[last]
       ELSE found.step # 2

\* The variants the fuzzy step is described with: one trailing "y" or "i"
\* taken off, and all spaces taken out.
TrailingVariants(part) ==
  { IF part # <<>> /\ part[Len(part)] \in {"y", "i"}
    THEN SubSeq(part, 1, Len(part) - 1) ELSE part,
    remove_char(part, " ") }

\* C21: a node found by the fuzzy variants (step 3) is the node whose name
\* equals the last segment with one trailing "y" or "i" removed, or the last
\* segment with all spaces removed; no other segment and no other variant
\* gives a step 3 match.
C21_TrailingVariantOfLast ==
  (pc = "resolved" /\ NonEmptyString /\ found.step = 3) =>
    \E v \in TrailingVariants(LastPart) :
      DictHas(categories_map, v) /\ found.node = DictGet(categories_map, v)

\* What the code does at step 3: any segment, from the last, with every "y",
\* every "i" or every space removed.
C21_AnyVariantOfAnyPart ==
  (pc = "resolved" /\ NonEmptyString /\ found.step = 3) =>
    \E n \in 1..Len(QueryParts) : \E k \in 1..Len(search_variants(QueryParts[n])) :
      /\ DictHas(categories_map, search_variants(QueryParts[n])[k])
      /\ found.node = DictGet(categories_map, search_variants(QueryParts[n])[k])

\* The nodes, in pre-order, whose name or path contains the part or is
\* contained in it.
Containing(part) ==
  {n \in 1..Len(LoadedNodes) :
     LET name == normalize_category_name(LoadedNodes[n].header)
         path == LoadedNodes[n].full_path
     IN \/ Contains(part, name) \/ Contains(name, part)
        \/ Contains(part, path) \/ Contains(path, part)}

FirstContaining(part) == CHOOSE n \in Containing(part) : \A m \in Containing(part) : n <= m

NoVariantAnywhere == \A n \in 1..Len(QueryParts) : ~VariantOf(QueryParts[n])

\* C22: when no earlier step matches, containment (step 4) answers iff some
\* node's name or path contains a segment or is contained in it, and the
\* node returned is the first such node in pre-order, also among nodes that
\* share a name.
C22_FirstContainingNode ==
  (pc = "resolved" /\ NonEmptyString /\ ~PathMatch /\ ~PartMatch /\ NoVariantAnywhere) =>
    IF \E n \in 1..Len(QueryParts) : Containing(QueryParts[n]) # {}
    THEN /\ found.step = 4
         /\ \E n \in 1..Len(QueryParts) :
              /\ Containing(QueryParts[n]) # {}
              /\ found.node = LoadedNodes[FirstContaining(QueryParts[n])]
    ELSE found.step = 5

\* The part of C22 the code keeps: step 4 answers iff some node qualifies.
C22_AnswersIffContained ==
  (pc = "resolved" /\ NonEmptyString /\ ~PathMatch /\ ~PartMatch /\ NoVariantAnywhere) =>
    (found.step = 4) = (\E n \in 1..Len(QueryParts) : Containing(QueryParts[n]) # {})

\* The segments of the breadcrumb that are not empty, joined again.
RECURSIVE NonEmptyParts(_)
NonEmptyParts(parts) ==
  IF parts = <<>> THEN <<>>
  ELSE (IF Head(parts) = <<>> THEN <<>> ELSE <<Head(parts)>>) \o NonEmptyParts(Tail(parts))

WithoutEmptyParts == join(<<"/">>, NonEmptyParts(QueryParts))

\* C30: a non-empty breadcrumb whose segments are all empty resolves to
\* not-found, and a breadcrumb with one empty segment resolves to what the
\* breadcrumb without that segment resolves to.
C30_EmptySegmentsIgnored ==
  (pc = "resolved" /\ NonEmptyString) =>
    /\ NonEmptyParts(QueryParts) = <<>> => (found.step = 5 /\ found.node = NoneCat)
    /\ (Len(NonEmptyParts(QueryParts)) = Len(QueryParts) - 1
        /\ NonEmptyParts(QueryParts) # <<>>) =>
         found.node = find_category_by_breadcrumbs(WithoutEmptyParts, categories_map,
                                                   categories_by_path).node

(***************************** product-catalog links ***********************)
MaxAdditional == 2
BATCH_SIZE == 500

\* A catalog reference of a product is modelled by its id; 0 stands for a
\* missing reference (None) and for one whose id is missing or 0.
CatalogRefs == {0, 10, 11}
ProductIds == {0, 1, 2}

AdditionalLists ==
  UNION { [1..n -> CatalogRefs] : n \in 0..MaxAdditional }

ProductData ==
  [id : ProductIds, catalog : CatalogRefs, catalogs : AdditionalLists]

LinkRow(product_id, catalog_id, is_primary, sort_order) ==
  [product_id |-> product_id, catalog_id |-> catalog_id,
   is_primary |-> is_primary, sort_order |-> sort_order]

\* Variant: the additional rows numbered 1, 2, ... as they are emitted.
RECURSIVE additional_links_dense(_, _, _)
additional_links_dense(product_id, catalogs_additional, idx) ==
  IF idx > Len(catalogs_additional) THEN <<>>
  ELSE (IF catalogs_additional[idx] # 0
        THEN <<LinkRow(product_id, catalogs_additional[idx], FALSE,
                       Cardinality({k \in 1..idx : catalogs_additional[k] # 0}))>>
        ELSE <<>>)
       \o additional_links_dense(product_id, catalogs_additional, idx + 1)

\* The loop over enumerate(catalogs_additional, start=1), from position idx.
RECURSIVE additional_links(_, _, _)
additional_links(product_id, catalogs_additional, idx) ==
  IF idx > Len(catalogs_additional) THEN <<>>
  ELSE (IF catalogs_additional[idx] # 0
        THEN <<LinkRow(product_id, catalogs_additional[idx], FALSE, idx)>>
        ELSE <<>>)
       \o additional_links(product_id, catalogs_additional, idx + 1)

\* export_product_catalog_links.py, extract_catalog_links.
extract_catalog_links(data) ==
  IF data.id = 0 THEN <<>>
  ELSE (IF data.catalog # 0 THEN <<LinkRow(data.id, data.catalog, TRUE, 0)>> ELSE <<>>)
       \o additional_links(data.id, data.catalogs, 1)

SameKey(r, q) == r.product_id = q.product_id /\ r.catalog_id = q.catalog_id

\* Variant: a plain insert, a second row for a pair already in the table.
insert_row(rows, link) == Append(rows, link)

\* The store's upsert of one row, on_conflict="product_id,catalog_id".
upsert_row(rows, link) ==
  IF \E n \in 1..Len(rows) : SameKey(rows[n], link)
  THEN [n \in 1..Len(rows) |-> IF SameKey(rows[n], link) THEN link ELSE rows[n]]
  ELSE Append(rows, link)

RECURSIVE upsert_each(_, _)
upsert_each(rows, batch) ==
  IF batch = <<>> THEN rows ELSE upsert_each(upsert_row(rows, Head(batch)), Tail(batch))

\* One upsert statement cannot touch the same pair twice: the store rejects
\* such a batch as a whole (the call raises and the table is unchanged).
BatchRejected(batch) ==
  \E a, b \in 1..Len(batch) : a < b /\ SameKey(batch[a], batch[b])

\* supabase.table("product_catalogs").upsert(batch, on_conflict=...).execute()
upsert(rows, batch) ==
  IF BatchRejected(batch) THEN [raised |-> TRUE, rows |-> rows]
  ELSE [raised |-> FALSE, rows |-> upsert_each(rows, batch)]

\* The except branch: every link of the batch is upserted on its own.
RECURSIVE retry_one_by_one(_, _)
retry_one_by_one(rows, batch) ==
  IF batch = <<>> THEN rows
  ELSE retry_one_by_one(upsert(rows, <<Head(batch)>>).rows, Tail(batch))

\* load_product_catalog_links_to_supabase.py, insert_links_batch: batches of
\* BATCH_SIZE; a batch the store refuses is retried link by link.
RECURSIVE insert_links_batch(_, _, _)
insert_links_batch(rows, links, i) ==
  IF i >= Len(links) THEN rows
  ELSE LET last == IF i + BATCH_SIZE < Len(links) THEN i + BATCH_SIZE ELSE Len(links)
           batch == SubSeq(links, i + 1, last)
           tried == upsert(rows, batch)
       IN insert_links_batch(IF tried.raised THEN retry_one_by_one(rows, batch)
                             ELSE tried.rows,
                             links, i + BATCH_SIZE)

InitLinks ==
  /\ product_data \in ProductData
  /\ all_links = <<>>
  /\ table = <<>>
  /\ loads = <<>>
  /\ CreatorIdle /\ ResolveIdle /\ FlattenIdle /\ MainIdle /\ RestIdle
  /\ pc = "export"

\* export_product_catalog_links.py: the product is fetched and its links
\* are collected.
ExportLinks ==
  /\ pc = "export"
  /\ all_links' = extract_catalog_links(product_data)
  /\ pc' = "load"
  /\ UNCHANGED <<restVars, product_data, table, loads, creatorVars, resolveVars, flattenVars, mainVars>>

\* load_product_catalog_links_to_supabase.py: the exported links are loaded.
LoadLinks ==
  /\ pc = "load"
  /\ table' = insert_links_batch(table, all_links, 0)
  /\ loads' = Append(loads, [links |-> all_links, table |-> table'])
  /\ pc' = IF Len(loads) = 0 THEN "export" ELSE "done"
  /\ UNCHANGED <<restVars, product_data, all_links, creatorVars, resolveVars, flattenVars, mainVars>>

NextLinks == ExportLinks \/ LoadLinks

SpecLinks == InitLinks /\ [][NextLinks]_vars

RowSet(rows) == {rows[n] : n \in 1..Len(rows)}

\* C6: at most one row per (product_id, catalog_id); a catalog that is both
\* primary and additional keeps the primary row; primary 10 with additional
\* [10, 11] gives exactly (p, 10, primary, 0) and (p, 11, additional, 1).
C6_OneRowPerPair ==
  pc # "export" =>
    /\ \A a, b \in 1..Len(all_links) : SameKey(all_links[a], all_links[b]) => a = b
    /\ (product_data = [id |-> 1, catalog |-> 10, catalogs |-> <<10, 11>>]) =>
         all_links = <<LinkRow(1, 10, TRUE, 0), LinkRow(1, 11, FALSE, 1)>>

AdditionalRows == {n \in 1..Len(all_links) : ~all_links[n].is_primary}

\* The rows of the product extracted: a primary row iff the primary catalog
\* is resolved, and one additional row per resolved additional catalog with
\* its position in the source list as sort_order.
RowsAsDescribed ==
  /\ (\E n \in 1..Len(all_links) : all_links[n].is_primary) = (product_data.catalog # 0)
  /\ \A n, m \in 1..Len(all_links) :
       all_links[n].is_primary =>
         /\ all_links[n] = LinkRow(product_data.id, product_data.catalog, TRUE, 0)
         /\ all_links[m].is_primary => n = m
  /\ \A idx \in 1..Len(product_data.catalogs) :
       product_data.catalogs[idx] # 0 =>
         \E n \in AdditionalRows :
           all_links[n] = LinkRow(product_data.id, product_data.catalogs[idx], FALSE, idx)
  /\ \A n \in AdditionalRows :
       /\ all_links[n].sort_order \in 1..Len(product_data.catalogs)
       /\ all_links[n].catalog_id = product_data.catalogs[all_links[n].sort_order]
       /\ all_links[n].product_id = product_data.id
  /\ \A n, m \in AdditionalRows : n < m => all_links[n].sort_order < all_links[m].sort_order

\* C25 as stated: for every item, a primary row (is_primary, sort_order 0) is
\* emitted iff the primary catalog is resolved, and every resolved additional
\* catalog gets a row with is_primary false and its 1-based source position
\* as sort_order, strictly increasing.
C25_EveryItem ==
  pc # "export" => RowsAsDescribed

\* C25, amended: the same for every item that has an id; an item without an
\* id gets no rows.
C25_ItemsWithId ==
  pc # "export" =>
    IF product_data.id # 0 THEN RowsAsDescribed ELSE all_links = <<>>

\* An unresolved additional catalog before a resolved one: the resolved one
\* keeps position 2.
C25_Witness ==
  /\ pc = "load"
  /\ product_data = [id |-> 1, catalog |-> 10, catalogs |-> <<0, 11>>]
  /\ all_links = <<LinkRow(1, 10, TRUE, 0), LinkRow(1, 11, FALSE, 2)>>

(***************************** fetch_product_catalogs **********************)
CONCURRENCY == 2
MaxTasks == 3

\* What GET /api/v1/product/{pid} answers: an error, a product with a
\* primary and two additional catalogs, or a product whose "catalog" is null.
FetchResponses(pid) ==
  { [kind |-> "error", data |-> <<>>, null_catalog |-> FALSE],
    [kind |-> "ok", data |-> [id |-> pid, catalog |-> 10, catalogs |-> <<11, 10>>],
     null_catalog |-> FALSE],
    [kind |-> "ok", data |-> [id |-> pid, catalog |-> 0, catalogs |-> <<11>>],
     null_catalog |-> TRUE] }

Task(state, response) == [state |-> state, response |-> response]

\* A semaphore that never blocks.
always_acquire(sem) == TRUE

\* `async with semaphore` enters when a slot is free.
can_acquire(sem) == sem > 0

\* A collection that keeps only the rows of the item that completed last.
overwrite_links(links_so_far, links) == links

\* all_links.extend(links)
extend_links(links_so_far, links) == links_so_far \o links

InFlight == {pid \in DOMAIN tasks : tasks[pid].state = "in_flight"}

InitFetch ==
  /\ tasks \in { t \in [1..MaxTasks -> UNION {{Task("created", r) : r \in FetchResponses(pid)}
                                              : pid \in 1..MaxTasks}] :
                   \A pid \in 1..MaxTasks :
                     t[pid].response \in FetchResponses(pid) }
  /\ semaphore = CONCURRENCY
  /\ all_products = <<>>
  /\ all_links = <<>>
  /\ product_data = <<>> /\ table = <<>> /\ loads = <<>>
  /\ CreatorIdle /\ ResolveIdle /\ FlattenIdle /\ MainIdle /\ AnalysisIdle
  /\ PayloadIdle /\ ExportIdle
  /\ pc = "gather"

\* fetch_one enters the semaphore and sends its request.
SendRequest ==
  /\ pc = "gather"
  /\ \E pid \in DOMAIN tasks :
       /\ tasks[pid].state = "created"
       /\ can_acquire(semaphore)
       /\ semaphore' = semaphore - 1
       /\ tasks' = [tasks EXCEPT ![pid].state = "in_flight"]
  /\ UNCHANGED <<pc, all_products, linkVars, analysisVars, creatorVars, resolveVars,
                 flattenVars, mainVars, payloadVars, exportVars>>

\* The answer arrives: the links are collected, then the product info; the
\* semaphore is left.  A null "catalog" raises after the links were added.
ReceiveData ==
  /\ pc = "gather"
  /\ \E pid \in DOMAIN tasks :
       /\ tasks[pid].state = "in_flight"
       /\ tasks[pid].response.kind = "ok"
       /\ all_links' = extend_links(all_links, extract_catalog_links(tasks[pid].response.data))
       /\ IF tasks[pid].response.null_catalog
          THEN /\ all_products' = all_products
               /\ tasks' = [tasks EXCEPT ![pid].state = "failed"]
          ELSE /\ all_products' = Append(all_products, tasks[pid].response.data.id)
               /\ tasks' = [tasks EXCEPT ![pid].state = "done"]
       /\ semaphore' = semaphore + 1
  /\ UNCHANGED <<pc, product_data, table, loads, analysisVars, creatorVars, resolveVars,
                 flattenVars, mainVars, payloadVars, exportVars>>

\* The request fails: the exception is caught and the semaphore is left.
ReceiveError ==
  /\ pc = "gather"
  /\ \E pid \in DOMAIN tasks :
       /\ tasks[pid].state = "in_flight"
       /\ tasks[pid].response.kind = "error"
       /\ tasks' = [tasks EXCEPT ![pid].state = "failed"]
       /\ semaphore' = semaphore + 1
  /\ UNCHANGED <<pc, all_products, linkVars, analysisVars, creatorVars, resolveVars,
                 flattenVars, mainVars, payloadVars, exportVars>>

\* asyncio.gather returns when every task has ended.
GatherReturns ==
  /\ pc = "gather"
  /\ \A pid \in DOMAIN tasks : tasks[pid].state \in {"done", "failed"}
  /\ pc' = "fetched"
  /\ UNCHANGED <<fetchVars, linkVars, analysisVars, creatorVars, resolveVars,
                 flattenVars, mainVars, payloadVars, exportVars>>

NextFetch == SendRequest \/ ReceiveData \/ ReceiveError \/ GatherReturns

SpecFetch == InitFetch /\ [][NextFetch]_vars

\* C16: at every moment the requests in flight are at most CONCURRENCY.
C16_BoundedInFlight ==
  tasks # <<>> => Cardinality(InFlight) <= CONCURRENCY

\* The limit binds: CONCURRENCY requests in flight while a task waits.
C16_Witness ==
  /\ pc = "gather"
  /\ Cardinality(InFlight) = CONCURRENCY
  /\ \E pid \in DOMAIN tasks : tasks[pid].state = "created"

\* The rows of the products whose answer carried data.
RECURSIVE ExpectedRows(_)
ExpectedRows(pid) ==
  IF pid = 0 THEN {}
  ELSE ExpectedRows(pid - 1) \cup
       (IF tasks[pid].response.kind = "ok"
        THEN {extract_catalog_links(tasks[pid].response.data)[n] :
                n \in 1..Len(extract_catalog_links(tasks[pid].response.data))}
        ELSE {})

\* The rows of one product are next to each other in all_links.
Together(pid) ==
  LET links == extract_catalog_links(tasks[pid].response.data)
  IN \E k \in 0..(Len(all_links) - Len(links)) :
       \A n \in 1..Len(links) : all_links[k + n] = links[n]

\* C17: whatever the order in which the tasks complete, the rows collected
\* are the rows of each answered product, each product's rows appended
\* together with the sort_order of its own list.
C17_OrderIndependent ==
  pc = "fetched" =>
    /\ {all_links[n] : n \in 1..Len(all_links)} = ExpectedRows(MaxTasks)
    /\ Cardinality(ExpectedRows(MaxTasks)) = Len(all_links)
    /\ \A pid \in DOMAIN tasks : tasks[pid].response.kind = "ok" => Together(pid)

\* Two answered products whose rows were collected against the id order.
C17_Witness ==
  /\ pc = "fetched"
  /\ \E a, b \in 1..Len(all_links) :
       a < b /\ all_links[a].product_id > all_links[b].product_id

(***************************** calculate_statistics ************************)
TOP_CATALOGS == 10

\* What one fetch_one leaves behind: the rows of the product, and its id in
\* the product list unless "catalog" was null (the exception is caught after
\* the rows were added).
Fetched(pid) ==
  { [links |-> extract_catalog_links(r.data),
     products |-> IF r.null_catalog THEN <<>> ELSE <<pid>>] :
      r \in {x \in [data : ProductData, null_catalog : BOOLEAN] :
               x.data.id = pid /\ (x.null_catalog => x.data.catalog = 0)} }

\* round(n / d, 2) in hundredths, a tie going to the even hundredth (no tie
\* can occur with fewer than eight products).
round2(n, d) ==
  LET q == (100 * n) \div d
      r == (100 * n) % d
  IN IF 2 * r < d THEN q
     ELSE IF 2 * r > d THEN q + 1
     ELSE IF q % 2 = 0 THEN q ELSE q + 1

\* catalog_distribution[cat_id] = catalog_distribution.get(cat_id, 0) + 1
RECURSIVE catalog_distribution(_, _)
catalog_distribution(links, dist) ==
  IF links = <<>> THEN dist
  ELSE LET cat_id == Head(links).catalog_id
       IN catalog_distribution(Tail(links),
            DictSet(dist, cat_id, (IF DictHas(dist, cat_id) THEN DictGet(dist, cat_id) ELSE 0) + 1))

\* sorted(items, key=lambda x: x[1], reverse=True): a stable sort, items of
\* equal count keep the order they have in items.
RECURSIVE sorted_by_count(_)
sorted_by_count(items) ==
  IF items = <<>> THEN <<>>
  ELSE LET front == sorted_by_count(SubSeq(items, 1, Len(items) - 1))
           x == items[Len(items)]
           k == Cardinality({n \in 1..Len(front) : front[n].v >= x.v})
       IN SubSeq(front, 1, k) \o <<x>> \o SubSeq(front, k + 1, Len(front))

\* export_product_catalog_links.py, calculate_statistics; the average is kept
\* in hundredths.
calculate_statistics(links, prods) ==
  LET total_links == Len(links)
      total_products == Len(prods)
      primary_links == Cardinality({n \in 1..Len(links) : links[n].is_primary})
      products_with_links == Cardinality({links[n].product_id : n \in 1..Len(links)})
      distribution == catalog_distribution(links, <<>>)
      ranked == sorted_by_count(distribution)
      top == SubSeq(ranked, 1, IF Len(ranked) < TOP_CATALOGS THEN Len(ranked) ELSE TOP_CATALOGS)
  IN [total_products |-> total_products,
      total_links |-> total_links,
      primary_links |-> primary_links,
      additional_links |-> total_links - primary_links,
      products_with_links |-> products_with_links,
      products_without_links |-> total_products - products_with_links,
      unique_catalogs |-> Len(distribution),
      avg_catalogs_per_product |-> IF total_products > 0
                                   THEN round2(total_links, total_products) ELSE 0,
      top_catalogs |-> [n \in 1..Len(top) |->
                          [catalog_id |-> top[n].k, product_count |-> top[n].v]]]

\* fetch_product_catalogs has returned: two products answered, in either
\* order of completion.
InitStatistics ==
  /\ \E f1 \in Fetched(1), f2 \in Fetched(2), first \in {1, 2} :
       /\ all_links = IF first = 1 THEN f1.links \o f2.links ELSE f2.links \o f1.links
       /\ all_products = IF first = 1 THEN f1.products \o f2.products
                         ELSE f2.products \o f1.products
  /\ tasks = <<>> /\ semaphore = 0
  /\ product_data = <<>> /\ table = <<>> /\ loads = <<>>
  /\ CreatorIdle /\ ResolveIdle /\ FlattenIdle /\ MainIdle /\ AnalysisIdle
  /\ PayloadIdle /\ ExportIdle
  /\ pc = "fetched"

\* save_payload: statistics = calculate_statistics(links, products)
SavePayload ==
  /\ pc = "fetched"
  /\ statistics' = calculate_statistics(all_links, all_products)
  /\ pc' = "saved"
  /\ UNCHANGED <<hierarchy_map, fetchVars, linkVars, analysisVars, creatorVars, resolveVars,
                 flattenVars, mainVars, payloadVars>>

NextStatistics == SavePayload

SpecStatistics == InitStatistics /\ [][NextStatistics]_vars

\* C26: the ranking is ordered by item count descending, ties by catalog id
\* ascending, so it does not depend on the order of the rows.
C26_RankingTiesById ==
  pc = "saved" =>
    \A a, b \in 1..Len(statistics.top_catalogs) :
      a < b =>
        \/ statistics.top_catalogs[a].product_count > statistics.top_catalogs[b].product_count
        \/ /\ statistics.top_catalogs[a].product_count = statistics.top_catalogs[b].product_count
           /\ statistics.top_catalogs[a].catalog_id < statistics.top_catalogs[b].catalog_id

\* What the code guarantees: counts never increase down the ranking.
C26_CountDescending ==
  pc = "saved" =>
    \A a, b \in 1..Len(statistics.top_catalogs) :
      a < b => statistics.top_catalogs[a].product_count
                 >= statistics.top_catalogs[b].product_count

LinkedItems == {all_links[n].product_id : n \in 1..Len(all_links)}

\* C27: the average is total links over the number of distinct items with at
\* least one link, rounded to two decimals; primary + additional = total
\* links; the zero-link count is total items minus linked items.
C27_AveragePerLinkedItem ==
  pc = "saved" =>
    /\ statistics.avg_catalogs_per_product =
         (IF LinkedItems = {} THEN 0 ELSE round2(Len(all_links), Cardinality(LinkedItems)))
    /\ statistics.primary_links + statistics.additional_links = statistics.total_links
    /\ statistics.products_without_links =
         statistics.total_products - Cardinality(LinkedItems)

\* The sums of C27, which the code keeps.
C27_Sums ==
  pc = "saved" =>
    /\ statistics.primary_links + statistics.additional_links = Len(all_links)
    /\ statistics.products_without_links = Len(all_products) - Cardinality(LinkedItems)

(***************************** flatten_catalog_tree ************************)
MaxFlattens == 2

\* A node of the nested tree /api/v1/catalog answers with. A node whose
\* "children" key was popped reads as one without children.
Nested(id, parent_id, header, children) ==
  [id |-> id, parentId |-> parent_id, header |-> header, children |-> children]

TreeHeaders == {sA, sB, sGr}

NestedTrees ==
  { <<Nested(1, 0, h1, <<>>)>> : h1 \in TreeHeaders }
  \cup { <<Nested(1, 0, h1, <<Nested(2, 1, h2, <<>>)>>)>> : h1, h2 \in TreeHeaders }
  \cup { <<Nested(1, 0, h1, <<Nested(2, 1, h2, <<>>), Nested(3, 1, h3, <<>>)>>)>> :
           h1, h2, h3 \in TreeHeaders }
  \cup { <<Nested(1, 0, h1, <<Nested(2, 1, h2, <<Nested(3, 2, h3, <<>>)>>)>>),
           Nested(4, 0, h3, <<>>)>> : h1, h2, h3 \in TreeHeaders }

FlatSep == <<" ", ">", " ">>

\* Variant: the depth counted from 0 at the top level.
catalog_entry_depth_from_zero(catalog, current_path, children) ==
  [id |-> catalog.id, header |-> catalog.header, parentId |-> catalog.parentId,
   path |-> join(FlatSep, current_path), pathArray |-> current_path,
   depth |-> Len(current_path) - 1, hasChildren |-> Len(children) > 0,
   childrenCount |-> Len(children)]

\* The entry flatten_catalog_tree appends for one node.
catalog_entry(catalog, current_path, children) ==
  [id |-> catalog.id, header |-> catalog.header, parentId |-> catalog.parentId,
   path |-> join(FlatSep, current_path), pathArray |-> current_path,
   depth |-> Len(current_path), hasChildren |-> Len(children) > 0,
   childrenCount |-> Len(children)]

\* export_catalog_structure.py, flatten_catalog_tree: the flat list.
RECURSIVE flatten_catalog_tree(_, _, _)
flatten_catalog_tree(tree, parent_path, flat_list) ==
  IF tree = <<>> THEN flat_list
  ELSE LET catalog == Head(tree)
           current_path == Append(parent_path, catalog.header)
           children == catalog.children
           appended == Append(flat_list, catalog_entry(catalog, current_path, children))
           below == IF children # <<>>
                    THEN flatten_catalog_tree(children, current_path, appended)
                    ELSE appended
       IN flatten_catalog_tree(Tail(tree), parent_path, below)

\* The caller's tree after the call: catalog.pop("children", []) has taken
\* the children out of every node of the list that was passed in.
after_pop_children(tree) ==
  [n \in 1..Len(tree) |-> [tree[n] EXCEPT !.children = <<>>]]

InitFlatten ==
  /\ catalog_tree \in NestedTrees
  /\ flattened = <<>>
  /\ CreatorIdle /\ ResolveIdle /\ LinkIdle /\ MainIdle /\ RestIdle
  /\ pc = "flatten"

\* One call flatten_catalog_tree(catalog_tree) on the tree object held.
Flatten ==
  /\ pc = "flatten" /\ Len(flattened) < MaxFlattens
  /\ flattened' = Append(flattened, flatten_catalog_tree(catalog_tree, <<>>, <<>>))
  /\ catalog_tree' = after_pop_children(catalog_tree)
  /\ UNCHANGED <<restVars, pc, creatorVars, resolveVars, linkVars, mainVars>>

NextFlatten == Flatten

SpecFlatten == InitFlatten /\ [][NextFlatten]_vars

FlatIds(flat) == {flat[n].id : n \in 1..Len(flat)}

\* C8: flattening the same nested tree twice yields the same node ids and,
\* for every id, the same path, pathArray and depth.
C8_ReflattenStable ==
  \A k \in 1..(Len(flattened) - 1) :
    /\ FlatIds(flattened[k]) = FlatIds(flattened[k + 1])
    /\ \A a \in 1..Len(flattened[k]), b \in 1..Len(flattened[k + 1]) :
         flattened[k][a].id = flattened[k + 1][b].id =>
           /\ flattened[k][a].path = flattened[k + 1][b].path
           /\ flattened[k][a].pathArray = flattened[k + 1][b].pathArray
           /\ flattened[k][a].depth = flattened[k + 1][b].depth

\* The ids of the nodes of a nested tree.
RECURSIVE TreeIds(_)
TreeIds(tree) ==
  IF tree = <<>> THEN {}
  ELSE {Head(tree).id} \cup TreeIds(Head(tree).children) \cup TreeIds(Tail(tree))

\* flat lists every node of tree once, a parent before its descendants, with
\* the headers from the top-level ancestor down as pathArray.
WellFlattened(tree, flat) ==
  /\ FlatIds(flat) = TreeIds(tree)
  /\ Len(flat) = Cardinality(TreeIds(tree))
  /\ \A n \in 1..Len(flat) :
       /\ flat[n].path = join(FlatSep, flat[n].pathArray)
       /\ flat[n].depth = Len(flat[n].pathArray)
       /\ IF \E t \in 1..Len(tree) : tree[t].id = flat[n].id
          THEN flat[n].pathArray = <<flat[n].header>> /\ flat[n].depth = 1
          ELSE \E m \in 1..(n - 1) :
                 /\ flat[m].id = flat[n].parentId
                 /\ flat[n].pathArray = Append(flat[m].pathArray, flat[n].header)

\* C23: every entry of the flattened list has as pathArray the headers from
\* its top-level ancestor down to the node, as path the pathArray joined
\* with " > " and as depth the length of the pathArray (1 at the top level);
\* every node of the tree appears once, a parent before its descendants.
C23_PathArrayDepth ==
  [][flattened' # flattened =>
       WellFlattened(catalog_tree, flattened'[Len(flattened')])]_vars

\* A node of depth 3 below two ancestors with different headers, and a
\* second top-level node after it.
C23_Witness ==
  /\ Len(flattened) = 1
  /\ \E n \in 1..Len(flattened[1]) :
       /\ flattened[1][n].depth = 3
       /\ flattened[1][n].pathArray = <<sA, sB, sGr>>
       /\ n < Len(flattened[1])

(***************************** build_hierarchical_map **********************)
MaxFlat == 3


\* Flat lists of up to MaxFlat nodes in any order: a node's parentId is null,
\* its own id, or a smaller id (which the list may hold before or after the
\* node, or not at all).
FlatLists ==
  { flat \in UNION { [1..n -> [id : 1..MaxFlat, parentId : 0..MaxFlat]] : n \in 1..MaxFlat } :
      /\ \A a, b \in 1..Len(flat) : flat[a].id = flat[b].id => a = b
      /\ \A a \in 1..Len(flat) : flat[a].parentId <= flat[a].id }

NoCatalog == [none |-> TRUE]

MapEntry(catalog, children_ids, parent_id) ==
  [catalog |-> catalog, children_ids |-> children_ids, parent_id |-> parent_id]

\* export_catalog_structure.py, build_hierarchical_map: the loop over the
\* flat list, from the map built so far.
RECURSIVE build_hierarchical_map(_, _)
build_hierarchical_map(flat_catalogs, hmap) ==
  IF flat_catalogs = <<>> THEN hmap
  ELSE LET catalog == Head(flat_catalogs)
           cat_id == catalog.id
           parent_id == catalog.parentId
           own == IF ~DictHas(hmap, cat_id)
                  THEN DictSet(hmap, cat_id, MapEntry(catalog, <<>>, parent_id))
                  ELSE hmap
           placed == IF ~DictHas(own, parent_id)
                     THEN DictSet(own, parent_id, MapEntry(NoCatalog, <<>>, 0))
                     ELSE own
           linked == IF parent_id # 0 /\ parent_id # cat_id
                     THEN DictSet(placed, parent_id,
                                  [DictGet(placed, parent_id) EXCEPT
                                     !.children_ids = Append(@, cat_id)])
                     ELSE own
       IN build_hierarchical_map(Tail(flat_catalogs), linked)

InitHierarchy ==
  /\ flattened \in {<<flat>> : flat \in FlatLists}
  /\ catalog_tree = <<>>
  /\ hierarchy_map = <<>> /\ statistics = <<>>
  /\ CreatorIdle /\ ResolveIdle /\ LinkIdle /\ MainIdle
  /\ AnalysisIdle /\ FetchIdle /\ PayloadIdle
  /\ pc = "build"

\* hierarchy = build_hierarchical_map(flat_catalogs)
BuildHierarchicalMap ==
  /\ pc = "build"
  /\ hierarchy_map' = build_hierarchical_map(flattened[1], <<>>)
  /\ pc' = "built"
  /\ UNCHANGED <<statistics, flattenVars, creatorVars, resolveVars, linkVars, mainVars,
                 analysisVars, fetchVars, payloadVars>>

NextHierarchy == BuildHierarchicalMap

SpecHierarchy == InitHierarchy /\ [][NextHierarchy]_vars

Occurrences(seq, x) == Cardinality({n \in 1..Len(seq) : seq[n] = x})

\* C24: for a flat list in any order, every node id is a key whose entry
\* records the node's own parentId; a node whose parentId is set and is not
\* its own id occurs exactly once in its parent's children_ids; a node whose
\* parentId is its own id occurs in no children_ids.
C24_HierarchyOfAnyOrder ==
  pc = "built" =>
    \A n \in 1..Len(flattened[1]) :
      LET node == flattened[1][n] IN
      /\ DictHas(hierarchy_map, node.id)
      /\ DictGet(hierarchy_map, node.id).parent_id = node.parentId
      /\ (node.parentId # 0 /\ node.parentId # node.id) =>
           /\ DictHas(hierarchy_map, node.parentId)
           /\ Occurrences(DictGet(hierarchy_map, node.parentId).children_ids, node.id) = 1
      /\ node.parentId = node.id =>
           \A k \in 1..Len(hierarchy_map) :
             Occurrences(hierarchy_map[k].v.children_ids, node.id) = 0

\* Every node stands after its parent when the list holds the parent.
ParentsFirst(flat) ==
  \A a, b \in 1..Len(flat) :
    (flat[a].parentId = flat[b].id /\ a # b) => b < a

\* C24 holds for the lists flatten_catalog_tree produces, parents first.
C24_HierarchyOfParentsFirst ==
  ParentsFirst(flattened[1]) => C24_HierarchyOfAnyOrder

(***************************** malformed payloads **************************)
\* JSON values of a payload, tagged with their Python type.
PList(items) == [type |-> "list", items |-> items]
PDict(id, header, children) ==
  [type |-> "dict", id |-> id, header |-> header, children |-> children]
PStr == [type |-> "str"]
PInt == [type |-> "int"]
PNone == [type |-> "none"]

\* Payloads of the expected shape, and payloads that are not: the top level
\* is not a list, an element is not an object, a "children" value is not a
\* list.
GoodPayloads ==
  { PList(<<PDict(1, h1, PList(<<PDict(2, h2, PList(<<>>))>>))>>) : h1, h2 \in TreeHeaders }

MalformedPayloads ==
  { PNone, PDict(1, sA, PList(<<>>)) }
  \cup { PList(<<bad>>) : bad \in {PStr, PNone} }
  \cup UNION { { PList(<<PDict(1, h1, PList(<<PDict(2, h2, PList(<<>>))>>)), bad>>),
                 PList(<<PDict(1, h1, PList(<<PDict(2, h2, PList(<<>>)), bad>>))>>),
                 PList(<<PDict(1, h1, bad), PDict(2, h2, PList(<<>>))>>),
                 PList(<<PDict(1, h1, PList(<<PDict(2, h2, bad)>>))>>) }
               : h1, h2 \in TreeHeaders, bad \in {PStr, PInt, PNone} }

\* The entry appended for a node read from a payload.
payload_entry(catalog, current_path, count) ==
  [id |-> catalog.id, header |-> catalog.header, parentId |-> 0,
   path |-> join(FlatSep, current_path), pathArray |-> current_path,
   depth |-> Len(current_path), hasChildren |-> count > 0, childrenCount |-> count]

\* flatten_catalog_tree on the items of a list, with the exceptions Python
\* raises: .get on a value that is not a dict, len() of None or an int,
\* iteration that yields the characters of a string.  flat_list and the
\* items are changed in place up to the point of the exception.
RECURSIVE flatten_items(_, _, _)
flatten_items(items, parent_path, flat_list) ==
  IF items = <<>> THEN [flat_list |-> flat_list, raised |-> FALSE, items |-> <<>>]
  ELSE
  LET catalog == Head(items) IN
  IF catalog.type # "dict"
  THEN [flat_list |-> flat_list, raised |-> TRUE, items |-> items]
  ELSE
  LET current_path == Append(parent_path, catalog.header)
      children == catalog.children
      popped == <<[catalog EXCEPT !.children = PList(<<>>)]>>
  IN IF children.type \in {"none", "int"}
     THEN [flat_list |-> flat_list, raised |-> TRUE, items |-> popped \o Tail(items)]
     ELSE
     LET count == IF children.type = "list" THEN Len(children.items) ELSE 1
         appended == Append(flat_list, payload_entry(catalog, current_path, count))
         below == IF children.type # "list"
                  THEN [flat_list |-> appended, raised |-> TRUE, items |-> <<>>]
                  ELSE IF children.items # <<>>
                  THEN flatten_items(children.items, current_path, appended)
                  ELSE [flat_list |-> appended, raised |-> FALSE, items |-> <<>>]
     IN IF below.raised
        THEN [flat_list |-> below.flat_list, raised |-> TRUE, items |-> popped \o Tail(items)]
        ELSE LET rest == flatten_items(Tail(items), parent_path, below.flat_list)
             IN [flat_list |-> rest.flat_list, raised |-> rest.raised,
                 items |-> popped \o rest.items]

\* flatten_catalog_tree(tree, None, flat_list) on any payload: a dict is
\* iterated by its keys (strings), None is not iterable.
flatten_payload(tree, flat_list) ==
  IF tree.type = "list"
  THEN LET r == flatten_items(tree.items, <<>>, flat_list)
       IN [flat_list |-> r.flat_list, raised |-> r.raised, tree |-> PList(r.items)]
  ELSE [flat_list |-> flat_list, raised |-> TRUE, tree |-> tree]

InitPayload ==
  /\ payload \in GoodPayloads \cup MalformedPayloads
  /\ catalog_tree = payload
  /\ flattened = <<>>
  /\ CreatorIdle /\ ResolveIdle /\ LinkIdle /\ MainIdle /\ AnalysisIdle /\ FetchIdle
  /\ ExportIdle
  /\ pc = "flatten"

\* A caller flattens the payload into its own accumulator.
FlattenPayload ==
  /\ pc = "flatten"
  /\ LET r == flatten_payload(catalog_tree, flattened)
     IN /\ flattened' = r.flat_list
        /\ catalog_tree' = r.tree
        /\ pc' = IF r.raised THEN "raised" ELSE "returned"
  /\ UNCHANGED <<payload, creatorVars, resolveVars, linkVars, mainVars, analysisVars,
                 fetchVars, exportVars>>

NextPayload == FlattenPayload

SpecPayload == InitPayload /\ [][NextPayload]_vars

\* C19: flattening a payload that is not of the expected shape fails with an
\* error and leaves the caller's tree and accumulator as they were.
C19_NoPartialMutation ==
  (pc # "flatten" /\ payload \in MalformedPayloads) =>
    /\ pc = "raised"
    /\ catalog_tree = payload
    /\ flattened = <<>>

\* The part of C19 the code keeps: a malformed payload of the model raises,
\* and a top level that is not a list changes nothing.
C19_RaisesOnly ==
  (pc # "flatten" /\ payload \in MalformedPayloads) =>
    /\ pc = "raised"
    /\ payload.type # "list" => (catalog_tree = payload /\ flattened = <<>>)

(***************************** the creation loop ***************************)
MaxProducts == 2

ExistingPimId == 7
CreatedPimId == 8

\* Rows of new_onec_products: code_1c and group1..group10 (None when empty).
ProductRows ==
  [code_1c : {None, <<"c", "1">>}, groups : { <<sGr, None>>, <<None, None>>, <<sA, sGr>> }]

Batches == UNION { [1..n -> ProductRows] : n \in 1..MaxProducts }

\* What POST /product/ and the scroll lookup before it can answer for one
\* product: found by code, created, 200 without a usable id, 403, other error.
ProductAnswers == {"exists", "created", "no_id", "forbidden", "http_error"}
RetryAnswers == {"created", "no_id", "http_error", "no_token"}

\* create/create_products_in_pim.py, create_product_in_pim: the PIM id, 0 for
\* None, or raised: the error branch prints a name the function never binds.
create_product_in_pim(product, answer, retry) ==
  IF product.code_1c # None /\ answer = "exists"
  THEN [pim_id |-> ExistingPimId, raised |-> FALSE]
  ELSE IF answer = "created" THEN [pim_id |-> CreatedPimId, raised |-> FALSE]
  ELSE IF answer = "forbidden" /\ retry = "created"
  THEN [pim_id |-> CreatedPimId, raised |-> FALSE]
  ELSE LET error == IF answer = "forbidden"
                    THEN retry \in {"http_error", "no_token"}
                    ELSE answer = "http_error"
       IN IF error THEN [pim_id |-> 0, raised |-> TRUE]
          ELSE [pim_id |-> 0, raised |-> FALSE]

Line(kind, n) == [kind |-> kind, n |-> n]

Counters(success, failed, skipped) ==
  [success |-> success, failed |-> failed, skipped |-> skipped]

InitMain ==
  /\ script = "create"
  /\ remote \in {RootOnly, <<Node(CATALOG_1C_ID, 1, sR), Node(23, CATALOG_1C_ID, sA)>>}
  /\ categories_map = <<>>
  /\ categories_by_path = load_categories(remote).paths
  /\ root_category = load_categories(remote).root
  /\ calls = <<>>
  /\ products \in Batches
  /\ counters = Counters(0, 0, 0)
  /\ checked_articuls = <<>>
  /\ printed = <<>>
  /\ fallbacks = 0
  /\ ResolveIdle /\ LinkIdle /\ FlattenIdle /\ RestIdle
  /\ pc = "loop"

\* One pass of the for loop of main() over the next product.
ProcessProduct ==
  /\ pc = "loop" /\ products # <<>>
  /\ \E svc \in SvcPatterns, answer \in ProductAnswers, retry \in RetryAnswers :
       LET product == Head(products)
           st == ensure_category_path(remote, categories_by_path, root_category,
                                      product.groups, svc)
           fallback == st.result = NoneCat
           category_obj == IF fallback THEN root_category ELSE st.result
           code_1c == product.code_1c
           cached == code_1c # None /\ DictHas(checked_articuls, code_1c)
                     /\ DictGet(checked_articuls, code_1c) # 0
           made == create_product_in_pim(product, answer, retry)
       IN /\ remote' = st.remote
          /\ categories_by_path' = st.paths
          /\ fallbacks' = fallbacks + (IF fallback THEN 1 ELSE 0)
          /\ IF cached
             THEN /\ counters' = [counters EXCEPT !.skipped = @ + 1]
                  /\ printed' = Append(printed, Line("skipped", DictGet(checked_articuls, code_1c)))
                  /\ UNCHANGED checked_articuls
                  /\ products' = Tail(products)
                  /\ pc' = "loop"
             ELSE IF made.raised
             THEN \* the exception leaves the loop; main's except prints it
                  /\ printed' = Append(printed, Line("exception", 0))
                  /\ UNCHANGED <<restVars, counters, checked_articuls, products>>
                  /\ pc' = "aborted"
             ELSE IF made.pim_id # 0
             THEN /\ counters' = [counters EXCEPT !.success = @ + 1]
                  /\ checked_articuls' = IF code_1c # None
                                         THEN DictSet(checked_articuls, code_1c, made.pim_id)
                                         ELSE checked_articuls
                  /\ printed' = Append(printed, Line("created", made.pim_id))
                  /\ products' = Tail(products)
                  /\ pc' = "loop"
             ELSE /\ counters' = [counters EXCEPT !.failed = @ + 1]
                  /\ checked_articuls' = IF code_1c # None
                                         THEN DictSet(checked_articuls, code_1c, 0)
                                         ELSE checked_articuls
                  /\ printed' = Append(printed, Line("failed", 0))
                  /\ products' = Tail(products)
                  /\ pc' = "loop"
  /\ UNCHANGED <<restVars, script, categories_map, root_category, calls, resolveVars, linkVars,
                 flattenVars>>

\* After the loop: the summary line with created / skipped / failed.
PrintSummary ==
  /\ pc = "loop" /\ products = <<>>
  /\ printed' = Append(printed, Line("summary", counters.success + counters.skipped
                                                 + counters.failed))
  /\ pc' = "done"
  /\ UNCHANGED <<restVars, creatorVars, resolveVars, linkVars, flattenVars, products, counters,
                 checked_articuls, fallbacks>>

NextMain == ProcessProduct \/ PrintSummary

SpecMain == InitMain /\ [][NextMain]_vars

\* C9: a failure confined to one product never aborts the batch: the loop
\* goes on to the remaining products and the run reaches its summary.
C9_NoAbort == pc # "aborted"

\* Number of fallback reports in the run's output.
ReportedFallbacks ==
  Cardinality({n \in 1..Len(printed) : printed[n].kind = "fallback"})

\* C10: at the end of the run the reported fallback count equals the number
\* of products given the root category by fallback.
C10_FallbacksReported == pc = "done" => ReportedFallbacks = fallbacks

====
